---------------------------- MODULE Spec2Model ----------------------------
(***************************************************************************)
(* A model of ThreatMarker's taint-propagating partial evaluator           *)
(* (TaintInterpreter.eval), its Environment chain, its callstack of        *)
(* ExecutionContexts and its residual output.                              *)
(*                                                                         *)
(* JavaScript objects that the interpreter shares by reference are kept    *)
(* in heaps indexed by identity:                                           *)
(*   st.heap  TaintedLiteral objects (carriers)                            *)
(*   st.envs  Environment objects                                          *)
(*   st.ctxs  ExecutionContext objects                                     *)
(*   st.arrs  array payloads (the `value` of an ArrayExpression carrier)   *)
(* so that an in-place mutation of a carrier is seen through every alias.  *)
(*                                                                         *)
(* eval is a recursive function of the interpreter state; it is modelled   *)
(* by the recursive operator Eval(node, ctx, s), which returns the state   *)
(* after the call, the value returned and the exception raised (if any).   *)
(* One step of the state machine is one iteration of the Program arm's     *)
(* forEach: the evaluation of the next top-level statement.                *)
(***************************************************************************)
EXTENDS Integers, Sequences, FiniteSets, TLC

VARIABLES prog, pc, st, status

vars == <<prog, pc, st, status>>

(***************************************************************************)
(* Bounds of the model.                                                    *)
(***************************************************************************)
\* iterations a concretely executed loop may take before the model gives up
MaxIter == 4
\* passes a tainted-loop fixed point may take before the model gives up
MaxPasses == 4

(***************************************************************************)
(* Syntax trees (@babel/types nodes).  A node is a record with a `type`.   *)
(***************************************************************************)
NoNode == [type |-> "None"]

Id(name) == [type |-> "Identifier", name |-> name]
Num(n) == [type |-> "NumericLiteral", value |-> n]
\* t.numericLiteral(NaN)
NumNaN == [type |-> "NumericLiteral", nan |-> TRUE]
Bool(b) == [type |-> "BooleanLiteral", value |-> b]
Str(x) == [type |-> "StringLiteral", value |-> x]
NullLit == [type |-> "NullLiteral"]
Bin(op, l, r) == [type |-> "BinaryExpression", operator |-> op, left |-> l, right |-> r]
Logical(op, l, r) == [type |-> "LogicalExpression", operator |-> op, left |-> l, right |-> r]
Unary(op, a) == [type |-> "UnaryExpression", operator |-> op, argument |-> a]
Update(op, pre, a) == [type |-> "UpdateExpression", operator |-> op, prefix |-> pre, argument |-> a]
SeqE(es) == [type |-> "SequenceExpression", expressions |-> es]
Assign(op, l, r) == [type |-> "AssignmentExpression", operator |-> op, left |-> l, right |-> r]
Cond(t, c, a) == [type |-> "ConditionalExpression", test |-> t, consequent |-> c, alternate |-> a]
Call(f, as) == [type |-> "CallExpression", callee |-> f, arguments |-> as]
Member(o, p, comp) == [type |-> "MemberExpression", object |-> o, property |-> p, computed |-> comp]
OptMember(o, p, comp) == [type |-> "OptionalMemberExpression", object |-> o, property |-> p, computed |-> comp]
ArrE(es) == [type |-> "ArrayExpression", elements |-> es]
FunExpr(params, body) == [type |-> "FunctionExpression", id |-> NoNode, params |-> params, body |-> body]

ExprStmt(e) == [type |-> "ExpressionStatement", expression |-> e]
Declarator(name, init) == [type |-> "VariableDeclarator", id |-> Id(name), init |-> init]
VarDecl(kind, ds) == [type |-> "VariableDeclaration", kind |-> kind, declarations |-> ds]
Var(name, init) == VarDecl("var", <<Declarator(name, init)>>)
If(t, c, a) == [type |-> "IfStatement", test |-> t, consequent |-> c, alternate |-> a]
Block(body) == [type |-> "BlockStatement", body |-> body]
FunDecl(name, params, body) == [type |-> "FunctionDeclaration", id |-> Id(name), params |-> params, body |-> body]
Return(a) == [type |-> "ReturnStatement", argument |-> a]
Catch(param, body) == [type |-> "CatchClause", param |-> param, body |-> body]
Try(b, h, f) == [type |-> "TryStatement", block |-> b, handler |-> h, finalizer |-> f]
Labeled(l, b) == [type |-> "LabeledStatement", label |-> Id(l), body |-> b]
Break(l) == [type |-> "BreakStatement", label |-> l]
While(t, b) == [type |-> "WhileStatement", test |-> t, body |-> b]
DoWhile(t, b) == [type |-> "DoWhileStatement", test |-> t, body |-> b]
For(i, t, u, b) == [type |-> "ForStatement", init |-> i, test |-> t, update |-> u, body |-> b]
Empty == [type |-> "EmptyStatement"]
Throw(a) == [type |-> "ThrowStatement", argument |-> a]
Program(body) == [type |-> "Program", body |-> body]

\* t.isNodesEquivalent on the trees the interpreter builds: the records hold
\* exactly the fields Babel compares, so equivalence is structural equality.
isNodesEquivalent(a, b) == a = b

(***************************************************************************)
(* Concrete payloads (the `value` of a TaintedLiteral), tagged by type.    *)
(***************************************************************************)
VUndef == [t |-> "undefined"]
VNull == [t |-> "null"]
VNum(n) == [t |-> "number", n |-> n]
VBool(b) == [t |-> "boolean", b |-> b]
VStr(x) == [t |-> "string", x |-> x]
VNaN == [t |-> "NaN"]
\* a runner closure: the function node it was built from
VFun(node) == [t |-> "function", fn |-> node]
\* an array payload: its identity in st.arrs
VArr(a) == [t |-> "object", arr |-> a]
\* a host Error object caught by a TryStatement
VErr(k) == [t |-> "error", k |-> k]

IsNum(v) == v.t = "number"

\* JavaScript truthiness (ToBoolean)
Truthy(v) ==
    CASE v.t = "undefined" -> FALSE
      [] v.t = "null" -> FALSE
      [] v.t = "boolean" -> v.b
      [] v.t = "number" -> v.n # 0
      [] v.t = "NaN" -> FALSE
      [] v.t = "string" -> v.x # ""
      [] OTHER -> TRUE

(***************************************************************************)
(* Exceptions.  NotImplementedException and ReferenceException extend      *)
(* DeobfuscatorException; get_repr, Value and the ReturnStatement arm      *)
(* throw a plain Error; the host raises TypeError.                         *)
(***************************************************************************)
NoEx == [k |-> "none"]
Ex(kind) == [k |-> kind]
NotImplementedException == Ex("NotImplemented")
ReferenceException == Ex("Reference")
DeobfuscatorException == Ex("Deobfuscator")
\* the plain Error of get_repr / Value: the specification's InternalInvariant
InternalError == Ex("Error")
TypeError == Ex("TypeError")
\* the model's own stop of a run that exceeds MaxIter or MaxPasses
Diverge == Ex("Diverge")

(***************************************************************************)
(* TaintedLiteral (d.ts).  hv / hn say whether the object has an own       *)
(* `value` / `node` property (get_repr asks hasOwnProperty); a property    *)
(* that is absent reads as undefined (VUndef, NoNode).                     *)
(***************************************************************************)
TL(hv, v, hn, n, t) == [hv |-> hv, v |-> v, hn |-> hn, n |-> n, t |-> t]
\* { value: v, isTainted: t }
TLValue(v, t) == TL(TRUE, v, FALSE, NoNode, t)
\* { node: n, isTainted: t }
TLNode(n, t) == TL(FALSE, VUndef, TRUE, n, t)
\* { node: n, value: v, isTainted: t }
TLBoth(n, v, t) == TL(TRUE, v, TRUE, n, t)
\* { node: t.identifier(name), isTainted: true }
TaintedRef(name) == TLNode(Id(name), TRUE)

(***************************************************************************)
(* The interpreter state threaded through eval.                            *)
(*   record of an Environment: a Map, kept as the sequence of its          *)
(*   <<key, carrier>> entries in insertion order; carrier -1 is a key      *)
(*   bound to undefined (a parameter with no argument).                    *)
(***************************************************************************)
Entry(name, c) == [name |-> name, c |-> c]

MapHas(rec, name) == \E i \in 1..Len(rec) : rec[i].name = name
MapGet(rec, name) == rec[CHOOSE i \in 1..Len(rec) : rec[i].name = name].c
MapSet(rec, name, c) ==
    IF MapHas(rec, name)
    THEN [i \in 1..Len(rec) |-> IF rec[i].name = name THEN Entry(name, c) ELSE rec[i]]
    ELSE Append(rec, Entry(name, c))

\* new Environment(record, parent, taint_parent_writes, taint_parent_reads,
\*                 ignore_reference_exception)
Environment(rec, parent, tpw, tpr, ire) ==
    [record |-> rec, parent |-> parent, taint_parent_writes |-> tpw,
     taint_parent_reads |-> tpr, ignore_reference_exception |-> ire]

\* new ExecutionContext(thisValue, environment, type, name)
ExecutionContext(env, type, name) == [environment |-> env, type |-> type, name |-> name]

\* the heap cell of carrier id c
Cell(s, c) == s.heap[c]

\* allocate a carrier: the state with it, its identity is Len(heap)
Alloc(s, tl) == [s EXCEPT !.heap = Append(@, tl)]
NewId(s) == Len(s.heap) + 1

\* allocate an Environment / an ExecutionContext / an array
AllocEnv(s, env) == [s EXCEPT !.envs = Append(@, env)]
NewEnv(s) == Len(s.envs) + 1
AllocCtx(s, ctx) == [s EXCEPT !.ctxs = Append(@, ctx)]
NewCtx(s) == Len(s.ctxs) + 1

\* ctx.environment
EnvOf(s, ctx) == s.ctxs[ctx].environment

\* this.callstack[this.callstack.length - 1] (0 when the stack is empty)
Top(s) == IF Len(s.callstack) = 0 THEN 0 ELSE s.callstack[Len(s.callstack)]

Push(s, ctx) == [s EXCEPT !.callstack = Append(@, ctx)]
Pop(s) == [s EXCEPT !.callstack = SubSeq(@, 1, Len(@) - 1)]

\* history kept beside the program state: what eval did, in order
Log(s, ev) == [s EXCEPT !.log = Append(@, ev)]

(***************************************************************************)
(* Environment (lib/Environment.ts)                                        *)
(***************************************************************************)
\* is_tainted()
is_tainted(s, e) == s.envs[e].taint_parent_writes

RECURSIVE is_tainted_environment(_, _, _)
\* is_tainted_environment(limit): the recursive call passes no limit
is_tainted_environment(s, e, limit) ==
    IF limit # 0 /\ e = limit THEN FALSE
    ELSE IF s.envs[e].parent # 0
         THEN is_tainted(s, e) \/ is_tainted_environment(s, s.envs[e].parent, 0)
         ELSE is_tainted(s, e)

\* record.set(name, tl) on environment e with a fresh object
RecordSet(s, e, name, tl) ==
    LET id == NewId(s)
    IN  [Alloc(s, tl) EXCEPT !.envs[e].record = MapSet(@, name, id)]

RECURSIVE _resolve_parent(_, _, _)
\* _resolve_parent(name): [ex, env, s]; under ignore_reference_exception the
\* root of the chain declares the name as a tainted reference
_resolve_parent(s, e, name) ==
    IF MapHas(s.envs[e].record, name)
    THEN [ex |-> NoEx, env |-> e, s |-> s]
    ELSE IF s.envs[e].parent = 0
         THEN IF s.envs[e].ignore_reference_exception
              THEN [ex |-> NoEx, env |-> e, s |-> RecordSet(s, e, name, TaintedRef(name))]
              ELSE [ex |-> ReferenceException, env |-> 0, s |-> s]
         ELSE _resolve_parent(s, s.envs[e].parent, name)

\* declare(name)
declare(s, e, name) == RecordSet(s, e, name, TLValue(VUndef, FALSE))

\* the object assign() stores for { value, node, isTainted } when the write
\* is not redirected: nothing (the entry is kept) when value is undefined
\* and node is falsy
AssignStores(tl) == tl.v # VUndef \/ tl.n # NoNode
AssignStored(tl) ==
    IF Truthy(tl.v) /\ tl.n # NoNode THEN TLBoth(tl.n, tl.v, tl.t)
    ELSE IF tl.v # VUndef THEN TLValue(tl.v, tl.t)
    ELSE TLNode(tl.n, tl.t)

\* an assign that stores the carrier in the resolved environment whatever
\* the writing environment's taint_parent_writes is
assignUngated(s, e, name, tl) ==
    LET Write(rp) ==
            IF rp.ex # NoEx THEN [ex |-> rp.ex, s |-> s]
            ELSE IF AssignStores(tl)
                 THEN [ex |-> NoEx, s |-> RecordSet(rp.s, rp.env, name, AssignStored(tl))]
                 ELSE [ex |-> NoEx, s |-> rp.s]
    IN  Write(_resolve_parent(s, e, name))

\* assign(name, tl): [ex, s]
assign(s, e, name, tl) ==
    LET Write(rp) ==
            IF rp.ex # NoEx THEN [ex |-> rp.ex, s |-> s]
            ELSE IF s.envs[e].taint_parent_writes /\ rp.env # e
                 THEN [ex |-> NoEx, s |-> RecordSet(rp.s, rp.env, name, TaintedRef(name))]
                 ELSE IF AssignStores(tl)
                      THEN [ex |-> NoEx, s |-> RecordSet(rp.s, rp.env, name, AssignStored(tl))]
                      ELSE [ex |-> NoEx, s |-> rp.s]
    IN  Write(_resolve_parent(s, e, name))

\* setTaint(name, isTainted): [ex, s]
setTaint(s, e, name, flag) ==
    LET Retaint(rp, entry) ==
            RecordSet(rp.s, rp.env, name,
                      TLNode(IF entry.n # NoNode THEN entry.n ELSE Id(name), flag))
        Write(rp) ==
            IF rp.ex # NoEx THEN [ex |-> rp.ex, s |-> s]
            ELSE [ex |-> NoEx,
                  s |-> Retaint(rp, Cell(rp.s, MapGet(rp.s.envs[rp.env].record, name)))]
    IN  Write(_resolve_parent(s, e, name))

\* resolve(name): [ex, c, s]; c is the stored object itself, or a new
\* tainted reference under taint_parent_reads
resolve(s, e, name) ==
    LET Read(rp) ==
            IF rp.ex # NoEx THEN [ex |-> rp.ex, c |-> 0, s |-> s]
            ELSE IF s.envs[e].taint_parent_reads /\ rp.env # e
                 THEN [ex |-> NoEx, c |-> NewId(rp.s), s |-> Alloc(rp.s, TaintedRef(name))]
                 ELSE [ex |-> NoEx, c |-> MapGet(rp.s.envs[rp.env].record, name),
                       s |-> rp.s]
    IN  Read(_resolve_parent(s, e, name))

(***************************************************************************)
(* utils/to_value.ts                                                       *)
(***************************************************************************)
\* Value(value): the literal of a payload; [ex, n].  Any other payload
\* (undefined, a caught Error) is the thrown Error; the `arguments` object
\* is an object without map(), a host TypeError
RECURSIVE get_repr(_, _)
RECURSIVE ValueElems(_, _, _)
Value(s, v) ==
    CASE v.t = "string" -> [ex |-> NoEx, n |-> Str(v.x)]
      [] v.t = "number" -> [ex |-> NoEx, n |-> Num(v.n)]
      [] v.t = "NaN" -> [ex |-> NoEx, n |-> NumNaN]
      [] v.t = "boolean" -> [ex |-> NoEx, n |-> Bool(v.b)]
      [] v.t = "null" -> [ex |-> NoEx, n |-> NullLit]
      [] v.t = "object" -> ValueElems(s, s.arrs[v.arr], 1)
      [] v.t = "function" -> [ex |-> NoEx, n |-> [type |-> "FunctionHandle"]]
      [] v.t = "arguments" -> [ex |-> TypeError, n |-> NoNode]
      [] OTHER -> [ex |-> InternalError, n |-> NoNode]

\* t.arrayExpression(value.map(get_repr)) from element i on
ValueElems(s, elems, i) ==
    IF i > Len(elems) THEN [ex |-> NoEx, n |-> ArrE(<<>>)]
    ELSE LET h == IF elems[i] > 0 THEN get_repr(s, Cell(s, elems[i]))
                  ELSE [ex |-> TypeError, n |-> NoNode]
         IN  IF h.ex # NoEx THEN h
             ELSE LET r == ValueElems(s, elems, i + 1)
                  IN  IF r.ex # NoEx THEN r
                      ELSE [ex |-> NoEx, n |-> ArrE(<<h.n>> \o r.n.elements)]

\* get_repr(tl): tl.node || Value(tl.value)
get_repr(s, tl) ==
    IF ~tl.hn /\ ~tl.hv THEN [ex |-> InternalError, n |-> NoNode]
    ELSE IF tl.n # NoNode THEN [ex |-> NoEx, n |-> tl.n]
    ELSE Value(s, tl.v)

(***************************************************************************)
(* Host arithmetic on payloads                                             *)
(***************************************************************************)
\* ToNumber on the primitives the model carries
ToNumber(v) ==
    CASE v.t = "number" -> v
      [] v.t = "boolean" -> VNum(IF v.b THEN 1 ELSE 0)
      [] v.t = "null" -> VNum(0)
      [] OTHER -> VNaN

Arith(op, l, r) ==
    LET a == ToNumber(l)
        b == ToNumber(r)
    IN  IF a = VNaN \/ b = VNaN THEN VNaN
        ELSE CASE op = "+" -> VNum(a.n + b.n)
               [] op = "-" -> VNum(a.n - b.n)
               [] op = "*" -> VNum(a.n * b.n)
               [] op = "%" -> IF b.n = 0 THEN VNaN ELSE VNum(a.n % b.n)

Compare(op, l, r) ==
    LET a == ToNumber(l)
        b == ToNumber(r)
    IN  IF a = VNaN \/ b = VNaN THEN VBool(FALSE)
        ELSE CASE op = "<" -> VBool(a.n < b.n)
               [] op = ">" -> VBool(a.n > b.n)
               [] op = "<=" -> VBool(a.n <= b.n)
               [] op = ">=" -> VBool(a.n >= b.n)

StrictEq(l, r) == l = r /\ l # VNaN
LooseEq(l, r) ==
    \/ StrictEq(l, r)
    \/ l.t \in {"null", "undefined"} /\ r.t \in {"null", "undefined"}
    \/ /\ {l.t, r.t} \subseteq {"number", "boolean"}
       /\ ToNumber(l) = ToNumber(r)

ArithOps == {"+", "-", "*", "%"}
CompareOps == {"<", ">", "<=", ">="}
EqOps == {"==", "===", "!=", "!=="}

\* the operator switch of the BinaryExpression arm, on the operators the
\* model carries; [ex, v]
BinaryValue(op, l, r) ==
    CASE op \in ArithOps -> [ex |-> NoEx, v |-> Arith(op, l, r)]
      [] op \in CompareOps -> [ex |-> NoEx, v |-> Compare(op, l, r)]
      [] op = "===" -> [ex |-> NoEx, v |-> VBool(StrictEq(l, r))]
      [] op = "!==" -> [ex |-> NoEx, v |-> VBool(~StrictEq(l, r))]
      [] op = "==" -> [ex |-> NoEx, v |-> VBool(LooseEq(l, r))]
      [] op = "!=" -> [ex |-> NoEx, v |-> VBool(~LooseEq(l, r))]
      [] OTHER -> [ex |-> NotImplementedException, v |-> VUndef]

\* resolveAssignmentExpression(operator, left, right); [ex, v]
resolveAssignmentExpression(op, l, r) ==
    CASE op = "=" -> [ex |-> NoEx, v |-> r]
      [] op = "+=" -> [ex |-> NoEx, v |-> Arith("+", l, r)]
      [] op = "-=" -> [ex |-> NoEx, v |-> Arith("-", l, r)]
      [] op = "*=" -> [ex |-> NoEx, v |-> Arith("*", l, r)]
      [] op = "%=" -> [ex |-> NoEx, v |-> Arith("%", l, r)]
      [] OTHER -> [ex |-> NotImplementedException, v |-> VUndef]

\* typeof
TypeOf(v) ==
    CASE v.t = "null" -> "object"
      [] v.t = "NaN" -> "number"
      [] v.t \in {"error", "arguments"} -> "object"
      [] OTHER -> v.t

(***************************************************************************)
(* TaintInterpreter.  eval returns a TaintedLiteral (c, the identity of    *)
(* the object in the heap), a statement node (n) or nothing (both empty);  *)
(* ex is the exception it threw.                                           *)
(***************************************************************************)
R(s, c, n, ex) == [s |-> s, c |-> c, n |-> n, ex |-> ex]
Ok(s, c) == R(s, c, NoNode, NoEx)
OkN(s, n) == R(s, 0, n, NoEx)
Void(s) == R(s, 0, NoNode, NoEx)
Raise(s, ex) == R(s, 0, NoNode, ex)
\* return of an object literal: a new object
Fresh(s, tl) == Ok(Alloc(s, tl), NewId(s))

\* append_ast(stmt)
append_ast(s, stmt) ==
    IF s.return_stmt_flag THEN OkN(s, stmt)
    ELSE Void([s EXCEPT !.ast = Append(@, stmt)])

\* safe_pop_context(expected_ctx)
safe_pop_context(s, ctx) == IF Top(s) = ctx THEN Pop(s) ELSE s

RECURSIVE Eval(_, _, _)

\* get_stmt_wrapper(this.eval, node, ctx): the flag is restored only when
\* eval returns
get_stmt_wrapper(node, ctx, s) ==
    LET r == Eval(node, ctx, [s EXCEPT !.return_stmt_flag = TRUE])
    IN  IF r.ex # NoEx THEN r
        ELSE [r EXCEPT !.s.return_stmt_flag = s.return_stmt_flag]

RECURSIVE LeakLocals(_, _, _, _)
\* the forEach of simplify_ambiguous_flow over the isolated record from
\* entry i on: declare and taint every local in the enclosing environment
LeakLocals(s, rec, i, e) ==
    IF i > Len(rec) THEN s
    ELSE LET key == rec[i].name
             a == assign(declare(s, e, key), e, key, TaintedRef(key))
         IN  LeakLocals(a.s, rec, i + 1, e)

\* simplify_ambiguous_flow(block, ctx, {type, name})
simplify_ambiguous_flow(block, ctx, type, name, s) ==
    IF block = NoNode THEN OkN(s, NoNode)
    ELSE LET env == NewEnv(s)
             s1 == AllocEnv(s, Environment(<<>>, EnvOf(s, ctx), TRUE, FALSE, FALSE))
             isolatedCtx == NewCtx(s1)
             s2 == Push(AllocCtx(s1, ExecutionContext(env, type, name)), isolatedCtx)
             r == get_stmt_wrapper(block, isolatedCtx, s2)
             Leak(s3) == LeakLocals(s3, s3.envs[env].record, 1, EnvOf(s3, ctx))
         IN  IF r.ex # NoEx THEN r
             ELSE [r EXCEPT !.s = Leak(safe_pop_context(@, isolatedCtx))]

evalExpressionStatement(node, ctx, s) ==
    LET val == Eval(node.expression, ctx, s)
        Emit(rp) == IF rp.ex # NoEx THEN Raise(val.s, rp.ex)
                    ELSE append_ast(val.s, ExprStmt(rp.n))
    IN  IF val.ex # NoEx THEN val
        ELSE IF val.c <= 0 THEN Raise(val.s, TypeError)
        ELSE Emit(get_repr(val.s, Cell(val.s, val.c)))

LiteralTypes == {"NumericLiteral", "StringLiteral", "BooleanLiteral", "NullLiteral"}

evalLiteral(node, ctx, s) ==
    CASE node.type = "NullLiteral" -> Fresh(s, TLValue(VNull, FALSE))
      [] node.type = "NumericLiteral" -> Fresh(s, TLValue(VNum(node.value), FALSE))
      [] node.type = "BooleanLiteral" -> Fresh(s, TLValue(VBool(node.value), FALSE))
      [] node.type = "StringLiteral" -> Fresh(s, TLValue(VStr(node.value), FALSE))

RECURSIVE EvalDeclarations(_, _, _, _, _)
\* the forEach of the VariableDeclaration arm from declaration i on
EvalDeclarations(node, i, acc, ctx, s) ==
    IF i > Len(node.declarations)
    THEN append_ast(s, VarDecl(node.kind, acc))
    ELSE LET r == Eval(node.declarations[i], ctx, s)
         IN  IF r.ex # NoEx THEN r
             ELSE EvalDeclarations(node, i + 1, Append(acc, r.n), ctx, r.s)

\* the guard reads node.type, which is never a declaration kind
evalVariableDeclaration(node, ctx, s) ==
    IF node.type \in {"let", "const", "using", "await using"}
    THEN Raise(s, NotImplementedException)
    ELSE EvalDeclarations(node, 1, <<>>, ctx, s)

evalVariableDeclarator(node, ctx, s) ==
    IF node.type \in {"MemberExpression", "ArrayPattern", "ObjectPattern",
                      "RestElement", "AssignmentPattern"}
    THEN Raise(s, NotImplementedException)
    ELSE LET id == node.id.name
             e == EnvOf(s, ctx)
             init == Eval(node.init, ctx, declare(s, e, id))
             Lifted(s1, rp) ==
                 IF rp.ex # NoEx THEN Raise(s1, rp.ex)
                 ELSE OkN(s1, Declarator(id, rp.n))
             Store(tl) ==
                 IF tl.t
                 THEN OkN(assign(init.s, e, id, TLNode(tl.n, TRUE)).s,
                          Declarator(id, tl.n))
                 ELSE Lifted(assign(init.s, e, id, TLValue(tl.v, FALSE)).s,
                             get_repr(init.s, tl))
         IN  IF node.init = NoNode THEN OkN(declare(s, e, id), Declarator(id, NoNode))
             ELSE IF init.ex # NoEx THEN init
             ELSE IF init.c <= 0 THEN Raise(init.s, TypeError)
             ELSE Store(Cell(init.s, init.c))

\* the stored object is returned itself, its node rewritten in place
evalIdentifier(node, ctx, s) ==
    LET Read(r) ==
            IF r.ex = ReferenceException THEN Fresh(s, TaintedRef(node.name))
            ELSE IF r.c <= 0 THEN Ok(r.s, r.c)
            ELSE IF Cell(r.s, r.c).n # NoNode
            THEN Ok([r.s EXCEPT !.heap[r.c].n = Id(node.name),
                                !.heap[r.c].hn = TRUE], r.c)
            ELSE Ok(r.s, r.c)
    IN  IF node.name = "undefined" THEN Fresh(s, TLValue(VUndef, FALSE))
        ELSE Read(resolve(s, EnvOf(s, ctx), node.name))

\* operands are read after both were evaluated: an operand object shared
\* with an environment shows what the other operand's evaluation did to it
evalBinaryExpression(node, ctx, s) ==
    LET l == Eval(node.left, ctx, s)
        r == Eval(node.right, ctx, l.s)
        Rebuilt(lp, rp) ==
            IF lp.ex # NoEx THEN Raise(r.s, lp.ex)
            ELSE IF rp.ex # NoEx THEN Raise(r.s, rp.ex)
            ELSE Fresh(r.s, TLNode(Bin(node.operator, lp.n, rp.n), TRUE))
        Computed(bv) ==
            IF bv.ex # NoEx THEN Raise(r.s, bv.ex)
            ELSE Fresh(r.s, TLValue(bv.v, FALSE))
        Combine(left_id, right_id) ==
            IF left_id.t \/ right_id.t
            THEN IF left_id.n = NoNode /\ right_id.n = NoNode
                 THEN Raise(r.s, DeobfuscatorException)
                 ELSE Rebuilt(get_repr(r.s, left_id), get_repr(r.s, right_id))
            ELSE Computed(BinaryValue(node.operator, left_id.v, right_id.v))
    IN  IF l.ex # NoEx THEN l
        ELSE IF l.c <= 0 THEN Raise(l.s, TypeError)
        ELSE IF r.ex # NoEx THEN r
        ELSE IF r.c <= 0 THEN Raise(r.s, TypeError)
        ELSE Combine(Cell(r.s, l.c), Cell(r.s, r.c))

Nullish(v) == v.t \in {"null", "undefined"}

\* shouldShortCircuit, were the right operand always evaluated
neverShortCircuit(op, v) == FALSE

shouldShortCircuit(op, v) ==
    CASE op = "&&" -> ~Truthy(v)
      [] op = "||" -> Truthy(v)
      [] op = "??" -> ~Nullish(v)
      [] OTHER -> FALSE

rightDeterminesResult(op, v) ==
    CASE op = "&&" -> Truthy(v)
      [] op = "||" -> ~Truthy(v)
      [] op = "??" -> Nullish(v)
      [] OTHER -> FALSE

evalLogicalExpression(node, ctx, s) ==
    LET op == node.operator
        l == Eval(node.left, ctx, s)
        r == Eval(node.right, ctx, l.s)
        Rebuilt(lp, rp) ==
            IF lp.ex # NoEx THEN Raise(r.s, lp.ex)
            ELSE IF rp.ex # NoEx THEN Raise(r.s, rp.ex)
            ELSE Fresh(r.s, TLNode(Logical(op, lp.n, rp.n), TRUE))
        Combine(left_id, right_id) ==
            IF ~left_id.t /\ rightDeterminesResult(op, left_id.v) THEN Ok(r.s, r.c)
            ELSE IF left_id.t \/ right_id.t
            THEN IF left_id.n = NoNode /\ right_id.n = NoNode
                 THEN Raise(r.s, DeobfuscatorException)
                 ELSE Rebuilt(get_repr(r.s, left_id), get_repr(r.s, right_id))
            ELSE Raise(r.s, NotImplementedException)
        Right(l0) ==
            IF ~l0.t /\ shouldShortCircuit(op, l0.v)
            THEN Fresh(l.s, TLValue(l0.v, FALSE))
            ELSE IF r.ex # NoEx THEN r
            ELSE IF r.c <= 0 THEN Raise(r.s, TypeError)
            ELSE Combine(Cell(r.s, l.c), Cell(r.s, r.c))
    IN  IF l.ex # NoEx THEN l
        ELSE IF l.c <= 0 THEN Raise(l.s, TypeError)
        ELSE Right(Cell(l.s, l.c))

evalEmptyStatement(node, ctx, s) == Void(s)

RECURSIVE EvalExpressions(_, _, _, _, _)
\* the forEach of the SequenceExpression arm from expression i on
EvalExpressions(node, i, acc, ctx, s) ==
    IF i > Len(node.expressions) THEN Void(s)
    ELSE LET r == Eval(node.expressions[i], ctx, s)
             Pushed(expr_tl, rp) ==
                 IF rp.ex # NoEx THEN Raise(r.s, rp.ex)
                 ELSE IF i = Len(node.expressions)
                 THEN Fresh(r.s, TL(TRUE, expr_tl.v, TRUE, SeqE(Append(acc, rp.n)),
                                    expr_tl.t))
                 ELSE EvalExpressions(node, i + 1, Append(acc, rp.n), ctx, r.s)
             Lift(expr_tl) == Pushed(expr_tl, get_repr(r.s, expr_tl))
         IN  IF r.ex # NoEx THEN r
             ELSE IF r.c <= 0 THEN Raise(r.s, TypeError)
             ELSE Lift(Cell(r.s, r.c))

evalSequenceExpression(node, ctx, s) == EvalExpressions(node, 1, <<>>, ctx, s)

\* -x on the primitives the model carries
Negate(v) == Arith("-", VNum(0), v)

evalUnaryExpression(node, ctx, s) ==
    LET r == Eval(node.argument, ctx, s)
        op == node.operator
        Rebuilt(rp) ==
            IF rp.ex # NoEx THEN Raise(r.s, rp.ex)
            ELSE Fresh(r.s, TLNode(Unary(op, rp.n), TRUE))
        Apply(operand) ==
            IF operand.t THEN Rebuilt(get_repr(r.s, operand))
            ELSE CASE op = "void" -> Fresh(r.s, TLNode(Id("undefined"), FALSE))
                   [] op = "!" -> Fresh(r.s, TLValue(VBool(~Truthy(operand.v)), FALSE))
                   [] op = "+" -> Fresh(r.s, TLValue(ToNumber(operand.v), FALSE))
                   [] op = "-" -> Fresh(r.s, TLValue(Negate(operand.v), FALSE))
                   [] op = "typeof" -> Fresh(r.s, TLValue(VStr(TypeOf(operand.v)), FALSE))
                   [] OTHER -> Raise(r.s, NotImplementedException)
    IN  IF r.ex # NoEx THEN r
        ELSE IF r.c <= 0 THEN Raise(r.s, TypeError)
        ELSE Apply(Cell(r.s, r.c))

\* the Identifier branch of the UpdateExpression arm; the operand is
\* resolved outside any try
evalUpdateExpression(node, ctx, s) ==
    LET operand == node.argument.name
        e == EnvOf(s, ctx)
        op == IF node.operator = "++" THEN "+" ELSE "-"
        Written(a, return_value) ==
            Fresh(a.s, TLBoth(Update(node.operator, node.prefix, node.argument),
                              return_value, FALSE))
        Step(r, operand_tl) ==
            IF operand_tl.t
            THEN Fresh(r.s, TLNode(Update(node.operator, node.prefix, Id(operand)), TRUE))
            ELSE Written(assign(r.s, e, operand,
                                TLValue(Arith(op, operand_tl.v, VNum(1)), FALSE)),
                         Arith(op, operand_tl.v, VNum(IF node.prefix THEN 1 ELSE 0)))
        Read(r) ==
            IF r.ex # NoEx THEN Raise(r.s, r.ex)
            ELSE IF r.c <= 0 THEN Raise(r.s, TypeError)
            ELSE Step(r, Cell(r.s, r.c))
    IN  IF node.argument.type = "Identifier" THEN Read(resolve(s, e, operand))
        ELSE Raise(s, NotImplementedException)

\* execute_ternary(expr) of the ConditionalExpression arm
execute_ternary(expr, ctx, s) ==
    LET env == NewEnv(s)
        s1 == AllocEnv(s, Environment(<<>>, EnvOf(s, ctx), TRUE, FALSE, FALSE))
        isolatedCtx == NewCtx(s1)
        s2 == Push(AllocCtx(s1, ExecutionContext(env, "ConditionalExpression", "")),
                   isolatedCtx)
        r == get_stmt_wrapper(expr, isolatedCtx, s2)
        Leak(s3) == LeakLocals(s3, s3.envs[env].record, 1, EnvOf(s3, ctx))
    IN  IF r.ex # NoEx THEN r
        ELSE IF r.c = 0 /\ r.n # NoNode THEN Raise(r.s, DeobfuscatorException)
        ELSE [r EXCEPT !.s = Leak(safe_pop_context(@, isolatedCtx))]

evalConditionalExpression(node, ctx, s) ==
    LET t == Eval(node.test, ctx, s)
        Joined(c, a, tp, cp, ap) ==
            IF tp.ex # NoEx THEN Raise(a.s, tp.ex)
            ELSE IF c.c <= 0 \/ a.c <= 0 THEN Raise(a.s, TypeError)
            ELSE IF cp.ex # NoEx THEN Raise(a.s, cp.ex)
            ELSE IF ap.ex # NoEx THEN Raise(a.s, ap.ex)
            ELSE Fresh(a.s, TLNode(Cond(tp.n, cp.n, ap.n), TRUE))
        Alternate(c, a) ==
            IF a.ex # NoEx THEN a
            ELSE Joined(c, a, get_repr(a.s, Cell(a.s, t.c)), get_repr(a.s, Cell(a.s, c.c)),
                        get_repr(a.s, Cell(a.s, a.c)))
        Consequent(c) ==
            IF c.ex # NoEx THEN c
            ELSE Alternate(c, execute_ternary(node.alternate, ctx, c.s))
        Branch(test0) ==
            IF test0.t THEN Consequent(execute_ternary(node.consequent, ctx, t.s))
            ELSE get_stmt_wrapper(IF Truthy(test0.v) THEN node.consequent
                                  ELSE node.alternate, ctx, t.s)
    IN  IF t.ex # NoEx THEN t
        ELSE IF t.c <= 0 THEN Raise(t.s, TypeError)
        ELSE Branch(Cell(t.s, t.c))

(***************************************************************************)
(* History events (kept in s.log, never read by the interpreter)           *)
(***************************************************************************)
\* eval(node, ctx) was entered; fin says whether a finalizer block is
\* being evaluated
EvalEvent(node, ctx, fin) == [k |-> "eval", node |-> node, ctx |-> ctx, fin |-> fin]
\* an AssignmentExpression or UpdateExpression wrote identifier `name`,
\* which resolved in environment env
WriteEvent(name, env) == [k |-> "write", name |-> name, env |-> env]

\* a tainted reference to `name`
IsTaintedRef(tl, name) == tl.t /\ tl.n = Id(name)

\* the variables that existed before a tainted if (environment <= envs0),
\* were written since log position start, and do not hold a tainted
\* reference now
OuterWritesNotRef(s, start, envs0) ==
    {<<s.log[i].env, s.log[i].name>> : i \in
        {j \in (start + 1)..Len(s.log) :
            /\ s.log[j].k = "write"
            /\ s.log[j].env <= envs0
            /\ LET c == MapGet(s.envs[s.log[j].env].record, s.log[j].name)
               IN  c <= 0 \/ ~IsTaintedRef(Cell(s, c), s.log[j].name)}}

\* a tainted IfStatement finished
IfEndEvent(s, start, envs0) ==
    [k |-> "ifend", notRef |-> OuterWritesNotRef(s, start, envs0)]

(***************************************************************************)
(* Arrays and member expressions.  The `value` of an ArrayExpression       *)
(* carrier is the array of its element carriers, st.arrs[a]; index k of    *)
(* the array is position k + 1 of the sequence.                            *)
(***************************************************************************)
\* the model's own stop at a host operation on a property it does not
\* carry (a property of an array that is not an index up to its length, a
\* property of a string, a function or `arguments`)
Unmodelled == Ex("Unmodelled")

\* Index, were a read past the end of an array a host error
IndexChecked(s, v, key) ==
    IF v.t \in {"undefined", "null"} THEN [ex |-> TypeError, c |-> 0]
    ELSE IF v.t \in {"number", "NaN", "boolean"} THEN [ex |-> NoEx, c |-> 0]
    ELSE IF v.t # "object" \/ key.t # "number" THEN [ex |-> Unmodelled, c |-> 0]
    ELSE IF key.n \in 0..(Len(s.arrs[v.arr]) - 1)
    THEN [ex |-> NoEx, c |-> s.arrs[v.arr][key.n + 1]]
    ELSE [ex |-> TypeError, c |-> 0]

\* (object.value)[property.value] read: [ex, c]; c = 0 is undefined
Index(s, v, key) ==
    IF v.t \in {"undefined", "null"} THEN [ex |-> TypeError, c |-> 0]
    ELSE IF v.t \in {"number", "NaN", "boolean"} THEN [ex |-> NoEx, c |-> 0]
    ELSE IF v.t # "object" \/ key.t # "number" THEN [ex |-> Unmodelled, c |-> 0]
    ELSE IF key.n \in 0..(Len(s.arrs[v.arr]) - 1)
    THEN [ex |-> NoEx, c |-> s.arrs[v.arr][key.n + 1]]
    ELSE [ex |-> NoEx, c |-> 0]

\* (object.value)[property.value] = c: [ex, s]
ArraySet(s, v, key, c) ==
    IF v.t \in {"undefined", "null"} THEN [ex |-> TypeError, s |-> s]
    ELSE IF v.t # "object" \/ key.t # "number" THEN [ex |-> Unmodelled, s |-> s]
    ELSE IF key.n \in 0..(Len(s.arrs[v.arr]) - 1)
    THEN [ex |-> NoEx, s |-> [s EXCEPT !.arrs[v.arr][key.n + 1] = c]]
    ELSE IF key.n = Len(s.arrs[v.arr])
    THEN [ex |-> NoEx, s |-> [s EXCEPT !.arrs[v.arr] = Append(@, c)]]
    ELSE [ex |-> Unmodelled, s |-> s]

\* target_object.isTainted = true; .value = undefined; .node = node
TaintTarget(s, target, node) ==
    [s EXCEPT !.heap[target] = TL(TRUE, VUndef, TRUE, node, TRUE)]

RECURSIVE Navigate(_, _, _, _, _)
\* the for loop of assignNestedMemberProperty from path entry i on:
\* [ex, s, target, done]; done says that the method returned in the loop
Navigate(s, target, path, i, node) ==
    LET Step(x) ==
            IF x.ex # NoEx
            THEN [ex |-> x.ex, s |-> s, target |-> target, done |-> TRUE]
            ELSE IF x.c = 0
            THEN Navigate(Alloc(s, TLValue(VUndef, FALSE)), NewId(s), path, i + 1, node)
            ELSE Navigate(s, x.c, path, i + 1, node)
    IN  IF i >= Len(path)
        THEN [ex |-> NoEx, s |-> s, target |-> target, done |-> FALSE]
        ELSE IF Cell(s, path[i]).t
        THEN [ex |-> NoEx, s |-> TaintTarget(s, target, node), target |-> target,
              done |-> TRUE]
        ELSE IF Cell(s, target).t
        THEN [ex |-> NoEx, s |-> s, target |-> target, done |-> TRUE]
        ELSE Step(Index(s, Cell(s, target).v, Cell(s, path[i]).v))

\* assignNestedMemberProperty(objectName, propertyPath, value,
\* propertyNode): [ex, s]; propertyPath and value are carriers
assignNestedMemberProperty(s, e, objectName, propertyPath, value, propertyNode) ==
    LET node == IF propertyNode # NoNode THEN propertyNode ELSE Cell(s, value).n
        Rooted(w, env, root) ==
            IF w.ex # NoEx THEN w
            ELSE [ex |-> NoEx,
                  s |-> RecordSet(w.s, env, objectName,
                                  TLBoth(Id(objectName), Cell(w.s, root).v, FALSE))]
        Final(s1, env, root, target, final_property) ==
            IF final_property.t
            THEN [ex |-> NoEx, s |-> TaintTarget(s1, target, node)]
            ELSE IF Cell(s1, target).t THEN [ex |-> NoEx, s |-> s1]
            ELSE IF s.envs[e].taint_parent_writes /\ env # e
            THEN Rooted(ArraySet(Alloc(s1, TLNode(node, TRUE)), Cell(s1, target).v,
                                 final_property.v, NewId(s1)),
                        env, root)
            ELSE ArraySet(s1, Cell(s1, target).v, final_property.v, value)
        Walked(env, root, nav) ==
            IF nav.ex # NoEx THEN [ex |-> nav.ex, s |-> nav.s]
            ELSE IF nav.done THEN [ex |-> NoEx, s |-> nav.s]
            ELSE Final(nav.s, env, root, nav.target,
                       Cell(nav.s, propertyPath[Len(propertyPath)]))
        Found(s1, env, root) ==
            IF root <= 0 THEN [ex |-> TypeError, s |-> s1]
            ELSE IF Cell(s1, root).t THEN [ex |-> NoEx, s |-> s1]
            ELSE Walked(env, root, Navigate(s1, root, propertyPath, 1, node))
        Write(rp) ==
            IF rp.ex # NoEx THEN [ex |-> rp.ex, s |-> s]
            ELSE Found(rp.s, rp.env, MapGet(rp.s.envs[rp.env].record, objectName))
    IN  Write(_resolve_parent(s, e, objectName))

RECURSIVE EvalElements(_, _, _, _, _)
\* element_list.push(get_stmt_wrapper(eval, element, ctx)) from element i
\* on: [s, elems, ex]
EvalElements(node, i, acc, ctx, s) ==
    LET Pushed(r) ==
            IF r.ex # NoEx THEN [s |-> r.s, elems |-> acc, ex |-> r.ex]
            ELSE EvalElements(node, i + 1, Append(acc, IF r.c > 0 THEN r.c ELSE -1),
                              ctx, r.s)
    IN  IF i > Len(node.elements) THEN [s |-> s, elems |-> acc, ex |-> NoEx]
        ELSE Pushed(get_stmt_wrapper(node.elements[i], ctx, s))

\* the array_expr is built, by get_repr of every element, and dropped
evalArrayExpression(node, ctx, s) ==
    LET Built(el, array_expr) ==
            IF array_expr.ex # NoEx THEN Raise(el.s, array_expr.ex)
            ELSE Ok([Alloc(el.s, TLValue(VArr(Len(el.s.arrs) + 1), FALSE))
                        EXCEPT !.arrs = Append(@, el.elems)],
                    NewId(el.s))
        Listed(el) ==
            IF el.ex # NoEx THEN Raise(el.s, el.ex)
            ELSE Built(el, ValueElems(el.s, el.elems, 1))
    IN  Listed(EvalElements(node, 1, <<>>, ctx, s))

\* t.isValidIdentifier(value): the strings of the model that are not
\* empty are identifier names
isValidIdentifier(v) == v.t = "string" /\ v.x # ""

\* format_member_expression(member_node, object, property): [ex, n]
format_member_expression(s, member_node, object, property) ==
    LET object_repr == IF object.n # NoNode THEN object.n ELSE member_node.object
        Computed(rp) ==
            IF rp.ex # NoEx THEN rp
            ELSE [ex |-> NoEx, n |-> Member(object_repr, rp.n, TRUE)]
    IN  IF ~property.t /\ isValidIdentifier(property.v)
        THEN [ex |-> NoEx, n |-> Member(object_repr, Id(property.v.x), FALSE)]
        ELSE Computed(get_repr(s, property))

evalMemberExpression(node, ctx, s) ==
    LET object == Eval(node.object, ctx, s)
        Fetch(s1, x) ==
            IF x.ex # NoEx THEN Raise(s1, x.ex)
            ELSE IF x.c = 0 THEN Fresh(s1, TLValue(VUndef, FALSE))
            ELSE Ok(s1, x.c)
        Computed(s1, obj, property, member_expr) ==
            IF member_expr.ex # NoEx THEN Raise(s1, member_expr.ex)
            ELSE IF obj.t \/ property.t THEN Fresh(s1, TLNode(member_expr.n, TRUE))
            ELSE Fetch(s1, Index(s1, obj.v, property.v))
        Formatted(s1, obj, property) ==
            Computed(s1, obj, property, format_member_expression(s1, node, obj, property))
        Keyed(p) ==
            IF p.ex # NoEx THEN p
            ELSE IF p.c <= 0 THEN Raise(p.s, TypeError)
            ELSE Formatted(p.s, Cell(p.s, object.c), Cell(p.s, p.c))
        Named(obj) ==
            IF obj.t THEN Fresh(object.s, TLNode(Member(obj.n, node.property, FALSE), TRUE))
            ELSE Fetch(object.s, Index(object.s, obj.v, VStr(node.property.name)))
    IN  IF object.ex # NoEx THEN object
        ELSE IF object.c <= 0 THEN Raise(object.s, TypeError)
        ELSE IF node.computed THEN Keyed(Eval(node.property, ctx, object.s))
        ELSE Named(Cell(object.s, object.c))

\* the copy of format_member_expression in the OptionalMemberExpression
\* arm: [ex, n]
format_optional_member_expression(s, member_node, object, property) ==
    LET object_repr == IF object.n # NoNode THEN object.n ELSE member_node.object
        Computed(rp) ==
            IF rp.ex # NoEx THEN rp
            ELSE [ex |-> NoEx, n |-> OptMember(object_repr, rp.n, TRUE)]
    IN  IF ~property.t /\ isValidIdentifier(property.v)
        THEN [ex |-> NoEx, n |-> OptMember(object_repr, Id(property.v.x), FALSE)]
        ELSE Computed(get_repr(s, property))

evalOptionalMemberExpression(node, ctx, s) ==
    LET object == Eval(node.object, ctx, s)
        Fetch(s1, x) ==
            IF x.ex # NoEx THEN Raise(s1, x.ex)
            ELSE IF x.c = 0 THEN Fresh(s1, TLValue(VUndef, FALSE))
            ELSE Ok(s1, x.c)
        Computed(s1, obj, property, member_expr) ==
            IF member_expr.ex # NoEx THEN Raise(s1, member_expr.ex)
            ELSE IF obj.t \/ property.t THEN Fresh(s1, TLNode(member_expr.n, TRUE))
            ELSE Fetch(s1, Index(s1, obj.v, property.v))
        Formatted(s1, obj, property) ==
            Computed(s1, obj, property,
                     format_optional_member_expression(s1, node, obj, property))
        Keyed(p) ==
            IF p.ex # NoEx THEN p
            ELSE IF p.c <= 0 THEN Raise(p.s, TypeError)
            ELSE Formatted(p.s, Cell(p.s, object.c), Cell(p.s, p.c))
        Named(obj) ==
            IF obj.t
            THEN Fresh(object.s, TLNode(OptMember(obj.n, node.property, FALSE), TRUE))
            ELSE Fetch(object.s, Index(object.s, obj.v, VStr(node.property.name)))
        Present(obj) ==
            IF ~obj.t /\ obj.v.t \in {"null", "undefined"}
            THEN Fresh(object.s, TLValue(VUndef, FALSE))
            ELSE IF node.computed THEN Keyed(Eval(node.property, ctx, object.s))
            ELSE Named(obj)
    IN  IF object.ex # NoEx THEN object
        ELSE IF object.c <= 0 THEN Raise(object.s, TypeError)
        ELSE Present(Cell(object.s, object.c))

RECURSIVE PropertyPath(_, _, _, _)
\* the walk up the MemberExpression chain from current_node:
\* [s, path, root, ex]; the outermost property is evaluated first
PropertyPath(current_node, property_path, ctx, s) ==
    LET Unshift(prop) ==
            IF prop.ex # NoEx
            THEN [s |-> prop.s, path |-> property_path, root |-> NoNode, ex |-> prop.ex]
            ELSE IF prop.c <= 0
            THEN [s |-> prop.s, path |-> property_path, root |-> NoNode, ex |-> TypeError]
            ELSE PropertyPath(current_node.object, <<prop.c>> \o property_path, ctx,
                              prop.s)
    IN  IF current_node.type # "MemberExpression"
        THEN [s |-> s, path |-> property_path, root |-> current_node, ex |-> NoEx]
        ELSE Unshift(IF current_node.computed THEN Eval(current_node.property, ctx, s)
                     ELSE Fresh(s, TLValue(VStr(current_node.property.name), FALSE)))

RECURSIVE FormatPath(_, _, _, _)
\* formatted_node = t.memberExpression(formatted_node, get_repr(property),
\* true) from path entry i on: [ex, n]
FormatPath(s, formatted_node, property_path, i) ==
    LET Wrapped(rp) ==
            IF rp.ex # NoEx THEN rp
            ELSE FormatPath(s, Member(formatted_node, rp.n, TRUE), property_path, i + 1)
    IN  IF i > Len(property_path) THEN [ex |-> NoEx, n |-> formatted_node]
        ELSE Wrapped(get_repr(s, Cell(s, property_path[i])))

\* the operator_map of the member branch of the AssignmentExpression arm
operator_map(op) ==
    CASE op = "+=" -> "+"
      [] op = "-=" -> "-"
      [] op = "*=" -> "*"
      [] op = "%=" -> "%"
      [] OTHER -> ""

\* the MemberExpression branch of the AssignmentExpression arm; r is the
\* evaluation of node.right
evalMemberAssignment(node, ctx, r) ==
    LET op == node.operator
        right_id == r.c
        Out(s1, formatted_node, tainted, rp) ==
            IF rp.ex # NoEx THEN Raise(s1, rp.ex)
            ELSE Fresh(s1, TLNode(Assign(op, formatted_node, rp.n), tainted))
        Return1(s1, formatted_node, tainted) ==
            Out(s1, formatted_node, tainted, get_repr(s1, Cell(s1, right_id)))
        \* the assignment of the carrier assigned_value
        Performed(w, formatted_node, assigned_value) ==
            IF w.ex # NoEx THEN Raise(w.s, w.ex)
            ELSE Return1(w.s, formatted_node, Cell(w.s, assigned_value).t)
        Perform(s1, p, formatted_node, lo, lp, assigned_value) ==
            Performed(IF p.root.type = "Identifier"
                      THEN assignNestedMemberProperty(s1, EnvOf(s1, ctx), p.root.name,
                                                      p.path, assigned_value,
                                                      formatted_node)
                      ELSE ArraySet(s1, Cell(s1, lo).v, Cell(s1, lp).v, assigned_value),
                      formatted_node, assigned_value)
        Compound(s1, p, formatted_node, lo, lp, l, rr) ==
            IF l.ex # NoEx THEN Raise(s1, l.ex)
            ELSE IF rr.ex # NoEx THEN Raise(s1, rr.ex)
            ELSE Perform(Alloc(s1, TLNode(Bin(operator_map(op), l.n, rr.n), TRUE)), p,
                         formatted_node, lo, lp, NewId(s1))
        Computed(s1, p, formatted_node, lo, lp, val) ==
            IF val.ex # NoEx THEN Raise(s1, val.ex)
            ELSE Perform(Alloc(s1, TLValue(val.v, FALSE)), p, formatted_node, lo, lp,
                         NewId(s1))
        Current(s1, p, formatted_node, lo, lp, current_value) ==
            IF current_value.ex # NoEx THEN Raise(s1, current_value.ex)
            ELSE IF current_value.c > 0 /\ Cell(s1, current_value.c).t
            THEN IF op = "=" THEN Perform(s1, p, formatted_node, lo, lp, right_id)
                 ELSE IF operator_map(op) = "" THEN Raise(s1, NotImplementedException)
                 ELSE Compound(s1, p, formatted_node, lo, lp,
                               get_repr(s1, Cell(s1, current_value.c)),
                               get_repr(s1, Cell(s1, right_id)))
            ELSE IF Cell(s1, right_id).t
            THEN IF op = "=" THEN Perform(s1, p, formatted_node, lo, lp, right_id)
                 ELSE IF operator_map(op) = "" THEN Raise(s1, NotImplementedException)
                 ELSE IF current_value.c <= 0 THEN Raise(s1, TypeError)
                 ELSE Compound(s1, p, formatted_node, lo, lp,
                               get_repr(s1, Cell(s1, current_value.c)),
                               [ex |-> NoEx, n |-> Cell(s1, right_id).n])
            ELSE IF current_value.c <= 0 THEN Raise(s1, TypeError)
            ELSE Computed(s1, p, formatted_node, lo, lp,
                          resolveAssignmentExpression(op, Cell(s1, current_value.c).v,
                                                      Cell(s1, right_id).v))
        Renamed(rr, name) ==
            IF rr.ex # NoEx THEN [ex |-> rr.ex, s |-> rr.s]
            ELSE [ex |-> NoEx, s |-> [rr.s EXCEPT !.heap[rr.c].n = Id(name),
                                                  !.heap[rr.c].hn = TRUE]]
        Marked(w, formatted_node) ==
            IF w.ex # NoEx THEN Raise(w.s, w.ex)
            ELSE Return1(w.s, formatted_node, TRUE)
        Spread(a, formatted_node, name) ==
            IF a.ex # NoEx THEN Raise(a.s, a.ex)
            ELSE Marked(Renamed(resolve(a.s, EnvOf(a.s, ctx), name), name),
                        formatted_node)
        Cases(s1, p, formatted_node, lo, lp) ==
            IF Cell(s1, lo).t THEN Return1(s1, formatted_node, TRUE)
            ELSE IF Cell(s1, lp).t
            THEN IF p.root.type # "Identifier" THEN Return1(s1, formatted_node, TRUE)
                 ELSE Spread(assignNestedMemberProperty(
                                 Alloc(s1, TL(TRUE, VUndef, TRUE, Id(p.root.name), TRUE)),
                                 EnvOf(s1, ctx), p.root.name, p.path, NewId(s1),
                                 formatted_node.object),
                             formatted_node, p.root.name)
            ELSE Current(s1, p, formatted_node, lo, lp,
                         Index(s1, Cell(s1, lo).v, Cell(s1, lp).v))
        Property(p, formatted_node, lo, lp) ==
            IF lp.ex # NoEx THEN lp
            ELSE IF lp.c <= 0 THEN Raise(lp.s, TypeError)
            ELSE Cases(lp.s, p, formatted_node, lo.c, lp.c)
        Object(p, formatted_node, lo) ==
            IF lo.ex # NoEx THEN lo
            ELSE IF lo.c <= 0 THEN Raise(lo.s, TypeError)
            ELSE Property(p, formatted_node, lo, Eval(node.left.property, ctx, lo.s))
        Formatted(p, s1, f) ==
            IF f.ex # NoEx THEN Raise(s1, f.ex)
            ELSE Object(p, f.n, Eval(node.left.object, ctx, s1))
        Lifted(p, root, rp) ==
            IF rp.ex # NoEx THEN Raise(root.s, rp.ex)
            ELSE Formatted(p, root.s, FormatPath(root.s, rp.n, p.path, 1))
        Root(p, root) ==
            IF root.ex # NoEx THEN root
            ELSE IF root.c <= 0 THEN Raise(root.s, TypeError)
            ELSE Lifted(p, root, get_repr(root.s, Cell(root.s, root.c)))
        Path(p) ==
            IF p.ex # NoEx THEN Raise(p.s, p.ex)
            ELSE IF p.root.type = "Identifier"
            THEN Formatted(p, p.s, FormatPath(p.s, p.root, p.path, 1))
            ELSE Root(p, Eval(p.root, ctx, p.s))
    IN  Path(PropertyPath(node.left, <<>>, ctx, r.s))

evalAssignmentExpression(node, ctx, s) ==
    LET r == Eval(node.right, ctx, s)
        e == EnvOf(r.s, ctx)
        name == node.left.name
        Simplified(rp, tainted) == TLNode(Assign(node.operator, Id(name), rp.n), tainted)
        Written(s1, where) == Log(s1, WriteEvent(name, where.env))
        Tainted(rp, ta) ==
            IF rp.ex # NoEx THEN Raise(r.s, rp.ex)
            ELSE IF ta.ex # NoEx THEN Raise(r.s, ta.ex)
            ELSE Fresh(Written(ta.s, _resolve_parent(r.s, e, name)), Simplified(rp, TRUE))
        Put(rp, written) ==
            IF rp.ex # NoEx THEN Raise(written, rp.ex)
            ELSE Fresh(written, Simplified(rp, FALSE))
        Stored(l, rp, val) ==
            IF val.ex # NoEx THEN Raise(l.s, val.ex)
            ELSE Put(rp, Written(assign(l.s, e, name, TLValue(val.v, FALSE)).s,
                                 _resolve_parent(r.s, e, name)))
        Concrete(right_id, rp, l, left_id) ==
            IF left_id.t /\ node.operator # "="
            THEN IF rp.ex # NoEx THEN Raise(l.s, rp.ex)
                 ELSE Fresh(l.s, Simplified(rp, TRUE))
            ELSE Stored(l, rp, resolveAssignmentExpression(node.operator, left_id.v,
                                                           right_id.v))
        Left(right_id, rp, l) ==
            IF l.ex # NoEx THEN Raise(r.s, l.ex)
            ELSE IF l.c <= 0 THEN Raise(l.s, TypeError)
            ELSE Concrete(right_id, rp, l, Cell(l.s, l.c))
        Right(right_id, rp) ==
            IF right_id.t THEN Tainted(rp, assign(r.s, e, name, TLNode(rp.n, TRUE)))
            ELSE Left(right_id, rp, resolve(r.s, e, name))
    IN  IF r.ex # NoEx THEN r
        ELSE IF r.c <= 0 THEN Raise(r.s, TypeError)
        ELSE IF node.left.type = "MemberExpression" THEN evalMemberAssignment(node, ctx, r)
        ELSE IF node.left.type # "Identifier" THEN Raise(r.s, NotImplementedException)
        ELSE Right(Cell(r.s, r.c), get_repr(r.s, Cell(r.s, r.c)))

\* a block that never notices that its context was popped
StaysInContext(s, ctx) == FALSE

\* this.callstack[this.callstack.length - 1] !== ctx, the test that ends a
\* block whose context was popped
LeftContext(s, ctx) == Top(s) # ctx

RECURSIVE EvalBody(_, _, _, _, _, _)
\* the loop of the BlockStatement arm from statement i on
EvalBody(node, i, block, initial_return_stmt_flag, ctx, s) ==
    IF i > Len(node.body)
    THEN append_ast([s EXCEPT !.return_stmt_flag = initial_return_stmt_flag], Block(block))
    ELSE LET stmt == node.body[i]
             r == Eval(stmt, ctx, s)
             block1 == IF r.n # NoNode THEN Append(block, r.n) ELSE block
         IN  IF r.ex # NoEx
             THEN Raise([r.s EXCEPT !.return_stmt_flag = initial_return_stmt_flag,
                                    !.error_state = Block(Append(block, stmt))], r.ex)
             ELSE IF LeftContext(r.s, ctx)
             THEN append_ast([r.s EXCEPT !.return_stmt_flag = initial_return_stmt_flag],
                             Block(block1))
             ELSE EvalBody(node, i + 1, block1, initial_return_stmt_flag, ctx, r.s)

evalBlockStatement(node, ctx, s) ==
    EvalBody(node, 1, <<>>, s.return_stmt_flag, ctx,
             [s EXCEPT !.return_stmt_flag = TRUE])

\* the alternate of a tainted IfStatement
evalAlternate(node, ctx, s) ==
    LET alt == node.alternate
        et == Eval(alt.test, ctx, s)
        Rewrapped(ep) ==
            IF ep.ex # NoEx THEN Raise(et.s, ep.ex)
            ELSE get_stmt_wrapper(If(ep.n, alt.consequent, alt.alternate), ctx, et.s)
        Nested(else_test) ==
            IF else_test.t THEN Rewrapped(get_repr(et.s, else_test))
            ELSE simplify_ambiguous_flow(IF Truthy(else_test.v) THEN alt.consequent
                                         ELSE alt.alternate,
                                         ctx, "IfStatement", "", et.s)
    IN  CASE alt = NoNode -> OkN(s, NoNode)
          [] alt.type = "BlockStatement" ->
                simplify_ambiguous_flow(alt, ctx, "IfStatement", "", s)
          [] alt.type = "IfStatement" ->
                IF et.ex # NoEx THEN et
                ELSE IF et.c <= 0 THEN Raise(et.s, TypeError)
                ELSE Nested(Cell(et.s, et.c))
          [] OTHER -> Raise(s, NotImplementedException)

evalIfStatement(node, ctx, s) ==
    LET t == Eval(node.test, ctx, s)
        test0 == Cell(t.s, t.c)
        block == IF Truthy(test0.v) THEN node.consequent ELSE node.alternate
        x == get_stmt_wrapper(block, ctx, t.s)
        Merged(c, a, tp) ==
            IF tp.ex # NoEx THEN Raise(a.s, tp.ex)
            ELSE append_ast(Log(a.s, IfEndEvent(a.s, Len(t.s.log), Len(t.s.envs))),
                            If(tp.n, c.n, a.n))
        Alternate(c, a) ==
            IF a.ex # NoEx THEN a
            ELSE Merged(c, a, get_repr(a.s, Cell(a.s, t.c)))
        Consequent(c) ==
            IF c.ex # NoEx THEN c
            ELSE Alternate(c, evalAlternate(node, ctx, c.s))
    IN  IF t.ex # NoEx THEN t
        ELSE IF t.c <= 0 THEN Raise(t.s, TypeError)
        ELSE IF test0.t
        THEN Consequent(simplify_ambiguous_flow(node.consequent, ctx, "IfStatement", "",
                                                t.s))
        ELSE IF block = NoNode THEN Void(t.s)
        ELSE IF x.ex # NoEx THEN x
        ELSE append_ast(x.s, x.n)

\* the `arguments` object of eval itself, stored by the FunctionDeclaration
\* sandbox
VArguments == [t |-> "arguments"]

FunctionTypes == {"FunctionExpression", "FunctionDeclaration"}

\* a runner returned: the call of function context fctx, of the function
\* built from node fn, yields the carrier `value`, whose taint is `tainted`
CallEndEvent(fctx, tainted, fn, value) ==
    [k |-> "callend", fctx |-> fctx, tainted |-> tainted, fn |-> fn, value |-> value]

RECURSIVE BindParams(_, _, _)
\* activation_record.set(params[i], args[i]) from parameter i on; a
\* parameter with no argument is bound to undefined
BindParams(params, args, i) ==
    IF i > Len(params) THEN <<>>
    ELSE LET rest == BindParams(params, args, i + 1)
             c == IF i <= Len(args) THEN args[i] ELSE -1
         IN  IF MapHas(rest, params[i].name) THEN rest
             ELSE <<Entry(params[i].name, c)>> \o rest

RECURSIVE SandboxParams(_, _, _)
\* record.set(param, {node: identifier(param), isTainted: true}) from
\* parameter i on
SandboxParams(s, params, i) ==
    IF i > Len(params) THEN [s |-> s, rec |-> <<>>]
    ELSE LET r == SandboxParams(Alloc(s, TaintedRef(params[i].name)), params, i + 1)
         IN  [s |-> r.s,
              rec |-> IF MapHas(r.rec, params[i].name) THEN r.rec
                      ELSE <<Entry(params[i].name, NewId(s))>> \o r.rec]

\* runner(args, parent_env) of the function built from node fn
runner(fn, args, parent_env, s) ==
    LET activation_record == MapSet(BindParams(fn.params, args, 1), "arguments", NewId(s))
        env == NewEnv(s)
        exec_ctx == NewCtx(s)
        s1 == AllocEnv(Alloc(s, TaintedRef("arguments")),
                       Environment(activation_record, parent_env, FALSE, FALSE, FALSE))
        s2 == Push(AllocCtx(s1, ExecutionContext(env, "FunctionExpression", "")), exec_ctx)
        b == Eval(fn.body, exec_ctx,
                  [Alloc(s2, TLValue(VNull, FALSE)) EXCEPT !.returnValue = NewId(s) + 1,
                                                           !.return_stmt_flag = TRUE])
        Result(s4) ==
            Ok(Log(s4, CallEndEvent(exec_ctx,
                                    s4.returnValue > 0 /\ Cell(s4, s4.returnValue).t,
                                    fn,
                                    IF s4.returnValue > 0 THEN Cell(s4, s4.returnValue)
                                    ELSE TLValue(VUndef, FALSE))),
               s4.returnValue)
        Leave(s3) ==
            IF ~s3.envs[env].taint_parent_writes THEN Result(s3)
            ELSE IF s3.returnValue <= 0 THEN Raise(s3, TypeError)
            ELSE Result([s3 EXCEPT !.heap[s3.returnValue].t = TRUE])
    IN  IF b.ex # NoEx THEN b
        ELSE Leave(safe_pop_context([b.s EXCEPT !.return_stmt_flag = s.return_stmt_flag],
                                    exec_ctx))

\* node.generator || node.async; a node built without the flags has them
\* false
GeneratorOrAsync(node) ==
    \/ "generator" \in DOMAIN node /\ node.generator
    \/ "async" \in DOMAIN node /\ node.async

\* a parameter that is no Identifier has no name: record.set(param, {node:
\* t.identifier(param), ...}) is handed undefined, which the t.identifier
\* builder rejects with a host TypeError
UnnamedParams(node) ==
    \E i \in DOMAIN node.params : node.params[i].type # "Identifier"

\* the parameter checks shared by the two function arms look at params[0]
UnsupportedParams(node) ==
    /\ Len(node.params) > 0
    /\ node.params[1].type \in {"RestElement", "AssignmentPattern", "ArrayPattern",
                                "ObjectPattern"}

\* the simplification of a function body in isolation: [s, n, ex]; hasNode
\* says whether the sandbox `arguments` entry carries a node
SandboxBody(node, ctxType, hasNode, s) ==
    LET env == NewEnv(s)
        exec_ctx == NewCtx(s)
        Entered(p) ==
            Push(AllocCtx(AllocEnv(Alloc(p.s, IF hasNode THEN TaintedRef("arguments")
                                              ELSE TLValue(VArguments, TRUE)),
                                   Environment(MapSet(p.rec, "arguments", NewId(p.s)),
                                               0, FALSE, FALSE, TRUE)),
                          ExecutionContext(env, ctxType, "")),
                 exec_ctx)
        b == Eval(node.body, exec_ctx,
                  [Entered(SandboxParams(s, node.params, 1)) EXCEPT
                      !.return_stmt_flag = TRUE])
    IN  IF b.ex # NoEx THEN b
        ELSE OkN(safe_pop_context([b.s EXCEPT !.return_stmt_flag = s.return_stmt_flag],
                                  exec_ctx), b.n)

evalFunctionDeclaration(node, ctx, s) ==
    LET name == node.id.name
        e == EnvOf(s, ctx)
        Declared(b) ==
            IF b.ex # NoEx THEN b
            ELSE append_ast(b.s, [type |-> "FunctionDeclaration", id |-> node.id,
                                  params |-> node.params, body |-> b.n])
        Sandboxed(s1) ==
            IF UnnamedParams(node) THEN Raise(s1, TypeError)
            ELSE Declared(SandboxBody(node, "FunctionDeclaration", FALSE, s1))
    IN  IF GeneratorOrAsync(node) \/ UnsupportedParams(node)
        THEN Raise(s, NotImplementedException)
        ELSE Sandboxed(assign(declare(s, e, name), e, name,
                              TLBoth(Id(name), VFun(node), FALSE)).s)

evalFunctionExpression(node, ctx, s) ==
    LET Built(b) ==
            IF b.ex # NoEx THEN b
            ELSE Fresh(b.s, TLBoth([type |-> "FunctionExpression", id |-> node.id,
                                    params |-> node.params, body |-> b.n],
                                   VFun(node), FALSE))
    IN  IF GeneratorOrAsync(node) \/ UnsupportedParams(node)
        THEN Raise(s, NotImplementedException)
        ELSE IF UnnamedParams(node) THEN Raise(s, TypeError)
        ELSE Built(SandboxBody(node, "FunctionExpression", TRUE, s))

\* a CallExpression with an untainted callee returned: node is the call,
\* depth the callstack height, tainted the taint of the result
CallEvent(node, ctx, depth, tainted) ==
    [k |-> "call", node |-> node, ctx |-> ctx, depth |-> depth, tainted |-> tainted]

RECURSIVE EvalArguments(_, _, _, _, _)
\* node.arguments.map(eval) from argument i on: [s, args, ex]
EvalArguments(node, i, acc, ctx, s) ==
    IF i > Len(node.arguments) THEN [s |-> s, args |-> acc, ex |-> NoEx]
    ELSE LET r == Eval(node.arguments[i], ctx, s)
         IN  IF r.ex # NoEx THEN [s |-> r.s, args |-> acc, ex |-> r.ex]
             ELSE EvalArguments(node, i + 1, Append(acc, IF r.c > 0 THEN r.c ELSE -1),
                                ctx, r.s)

RECURSIVE ReprAll(_, _, _)
\* args.map(get_repr) from argument i on: [ex, ns]
ReprAll(s, args, i) ==
    IF i > Len(args) THEN [ex |-> NoEx, ns |-> <<>>]
    ELSE LET h == IF args[i] > 0 THEN get_repr(s, Cell(s, args[i]))
                  ELSE [ex |-> TypeError, n |-> NoNode]
             r == ReprAll(s, args, i + 1)
         IN  IF h.ex # NoEx THEN [ex |-> h.ex, ns |-> <<>>]
             ELSE IF r.ex # NoEx THEN r
             ELSE [ex |-> NoEx, ns |-> <<h.n>> \o r.ns]

evalCallExpression(node, ctx, s) ==
    LET c == Eval(node.callee, ctx, s)
        Done(res, result) ==
            Log(res.s, CallEvent(node, ctx, Len(res.s.callstack), result.t))
        Inlined(res, result, simplified_call, lit) ==
            IF lit.ex # NoEx THEN Raise(res.s, lit.ex)
            ELSE Fresh(Done(res, result),
                       TLBoth(SeqE(<<simplified_call, lit.n>>), result.v, FALSE))
        Built(res, result, simplified_call) ==
            IF ~result.t
            THEN Inlined(res, result, simplified_call, Value(res.s, result.v))
            ELSE Fresh(Done(res, result), TL(TRUE, result.v, TRUE, simplified_call, TRUE))
        Lifted(res, reprs) ==
            IF reprs.ex # NoEx THEN Raise(res.s, reprs.ex)
            ELSE Built(res, Cell(res.s, res.c), Call(node.callee, reprs.ns))
        Ran(a, res) ==
            IF res.ex # NoEx THEN res
            ELSE IF res.c <= 0 THEN Raise(res.s, TypeError)
            ELSE Lifted(res, ReprAll(res.s, a.args, 1))
        Invoke(a) ==
            IF a.ex # NoEx THEN Raise(a.s, a.ex)
            ELSE IF Cell(a.s, c.c).v.t # "function" THEN Raise(a.s, TypeError)
            ELSE Ran(a, runner(Cell(a.s, c.c).v.fn, a.args, EnvOf(a.s, ctx), a.s))
    IN  IF c.ex # NoEx THEN c
        ELSE IF c.c <= 0 THEN Raise(c.s, TypeError)
        ELSE IF Cell(c.s, c.c).t THEN Fresh(c.s, TLNode(node, TRUE))
        ELSE Invoke(EvalArguments(node, 1, <<>>, ctx, c.s))

\* index of the innermost function context on the callstack, 0 if none
FuncIndex(s) ==
    LET idx == {i \in 1..Len(s.callstack) : s.ctxs[s.callstack[i]].type \in FunctionTypes}
    IN  IF idx = {} THEN 0 ELSE CHOOSE i \in idx : \A j \in idx : j <= i

\* the scan of the ReturnStatement arm above the function context
inTaintedEnv(s, fi) ==
    \E i \in (fi + 1)..Len(s.callstack) : is_tainted(s, EnvOf(s, s.callstack[i]))

RECURSIVE EnvChainTainted(_, _, _)
\* the scopes from environment e up to, not including, environment stop
\* (the whole chain when stop is not on it): is one of them tainted?
EnvChainTainted(s, e, stop) ==
    IF e = 0 \/ e = stop THEN FALSE
    ELSE is_tainted(s, e) \/ EnvChainTainted(s, s.envs[e].parent, stop)

\* while (!callstack.pop().environment.is_tainted()): [s, ex]
RECURSIVE PopUntilTainted(_)
PopUntilTainted(s) ==
    IF Len(s.callstack) = 0 THEN [s |-> s, ex |-> TypeError]
    ELSE IF is_tainted(s, EnvOf(s, Top(s))) THEN [s |-> Pop(s), ex |-> NoEx]
    ELSE PopUntilTainted(Pop(s))

\* a ReturnStatement ran in context ctx of function context func: before /
\* after are the callstack around it, chainTainted says whether a scope
\* from ctx's environment up to the function's has taint_parent_writes,
\* stackTainted is the interpreter's own inTaintedEnv, funcTainted the
\* function environment's taint_parent_writes afterwards
ReturnEvent(ctx, func, chainTainted, stackTainted, before, s) ==
    [k |-> "return", ctx |-> ctx, func |-> func, chainTainted |-> chainTainted,
     stackTainted |-> stackTainted, before |-> before, after |-> s.callstack,
     funcTainted |-> is_tainted(s, EnvOf(s, func))]

evalReturnStatement(node, ctx, s) ==
    LET r == IF node.argument = NoNode THEN Void(s) ELSE Eval(node.argument, ctx, s)
        Emit(s3, rp) ==
            IF rp.ex # NoEx THEN Raise(s3, rp.ex)
            ELSE append_ast(s3, Return(rp.n))
        Left(s3) ==
            IF node.argument = NoNode THEN append_ast(s3, Return(NoNode))
            ELSE Emit(s3, IF s3.returnValue > 0 THEN get_repr(s3, Cell(s3, s3.returnValue))
                          ELSE [ex |-> TypeError, n |-> NoNode])
        Logged(s1, func_exec_ctx, tainted, s2) ==
            Left(Log(s2, ReturnEvent(ctx, func_exec_ctx,
                                     EnvChainTainted(s1, EnvOf(s1, ctx),
                                                     EnvOf(s1, func_exec_ctx)),
                                     tainted, s1.callstack, s2)))
        Unwind(s1, fi, func_exec_ctx, tainted, p) ==
            IF tainted /\ p.ex # NoEx THEN Raise(p.s, p.ex)
            ELSE Logged(s1, func_exec_ctx, tainted,
                        IF tainted
                        THEN [p.s EXCEPT
                                 !.envs[EnvOf(s1, func_exec_ctx)].taint_parent_writes = TRUE]
                        ELSE [s1 EXCEPT !.callstack = SubSeq(@, 1, fi - 1)])
        Locate(s1, fi) ==
            IF fi = 0 THEN Raise(s1, InternalError)
            ELSE Unwind(s1, fi, s1.callstack[fi], inTaintedEnv(s1, fi), PopUntilTainted(s1))
        Kept(s1) == Locate(s1, FuncIndex(s1))
    IN  IF r.ex # NoEx THEN r
        ELSE Kept(IF node.argument = NoNode THEN s
                  ELSE [r.s EXCEPT !.returnValue = IF r.c > 0 THEN r.c ELSE -1])

evalLabeledStatement(node, ctx, s) ==
    LET label == node.label.name
        env == NewEnv(s)
        s1 == AllocEnv(s, Environment(<<>>, EnvOf(s, ctx), FALSE, FALSE, FALSE))
        exec_ctx == NewCtx(s1)
        s2 == Push(AllocCtx(s1, ExecutionContext(env, "LabeledStatement", label)), exec_ctx)
        body == get_stmt_wrapper(node.body, exec_ctx, s2)
    IN  IF body.ex # NoEx THEN body
        ELSE append_ast(safe_pop_context(body.s, exec_ctx), Labeled(label, body.n))

BREAKABLE_ENVIRONMENTS ==
    {"ForInStatement", "SwitchCase", "SwitchStatement", "ForStatement",
     "DoWhileStatement", "WhileStatement", "LabeledStatement"}

\* index of the context a break targets, 0 if none; label "" is no label
BreakIndex(s, label) ==
    LET idx == {i \in 1..Len(s.callstack) :
                   IF label # "" THEN s.ctxs[s.callstack[i]].name = label
                   ELSE s.ctxs[s.callstack[i]].type \in BREAKABLE_ENVIRONMENTS}
    IN  IF idx = {} THEN 0 ELSE CHOOSE i \in idx : \A j \in idx : j <= i

\* a BreakStatement ran in context ctx against context target: concrete
\* says which way it went, between whether a scope from ctx's environment
\* up to, not including, the target's has taint_parent_writes
BreakEvent(ctx, target, concrete, between, s) ==
    [k |-> "break", ctx |-> ctx, target |-> target, concrete |-> concrete,
     between |-> between, after |-> s.callstack,
     targetTainted |-> is_tainted(s, EnvOf(s, target))]

\* the BreakStatement with this label ("" for none) found its target on
\* the callstack `before`
TargetEvent(label, before, target) ==
    [k |-> "target", label |-> label, before |-> before, target |-> target]

evalBreakStatement(node, ctx, s) ==
    LET label == IF node.label = NoNode THEN "" ELSE node.label.name
        bi == BreakIndex(s, label)
        break_exec_ctx == s.callstack[bi]
        target == EnvOf(s, break_exec_ctx)
        between == EnvChainTainted(s, EnvOf(s, ctx), target)
        s1 == [s EXCEPT !.callstack = SubSeq(@, 1, bi - 1)]
        p == PopUntilTainted(s)
        s2 == [p.s EXCEPT !.envs[target].taint_parent_writes = TRUE]
        Found(s3) == Log(s3, TargetEvent(label, s.callstack, break_exec_ctx))
    IN  IF bi = 0 THEN Raise(s, ReferenceException)
        ELSE IF ~is_tainted_environment(s, EnvOf(s, ctx), target)
        THEN Void(Log(Found(s1), BreakEvent(ctx, break_exec_ctx, TRUE, between, s1)))
        ELSE IF p.ex # NoEx THEN Raise(p.s, p.ex)
        ELSE append_ast(Log(Found(s2), BreakEvent(ctx, break_exec_ctx, FALSE, between, s2)),
                        Break(node.label))

\* an instanceof test that only the base class passes
IsBaseException(ex) == ex = DeobfuscatorException

\* e instanceof DeobfuscatorException
IsDeobfuscatorException(ex) ==
    ex \in {NotImplementedException, ReferenceException, DeobfuscatorException}

\* a TryStatement finished: thrown is what its body threw, caught whether
\* the catch block was executed concretely, out what the statement threw,
\* block the try block of the statement it emitted (NoNode if none)
TryEvent(node, thrown, caught, out, block) ==
    [k |-> "try", node |-> node, thrown |-> thrown.k, caught |-> caught,
     out |-> out.k, block |-> block]

\* the body of a TryStatement threw an exception the statement handles;
\* error_state is the flag as the body's block left it, entry the callstack
\* the statement was entered on, callstack the one the catch block starts on
FaultEvent(node, error_state, entry, callstack) ==
    [k |-> "fault", node |-> node, error_state |-> error_state, entry |-> entry,
     callstack |-> callstack]

\* assign(param_name, original_error_value), when both exist
RestoreParam(s, e, param_name, original) ==
    IF param_name # "" /\ original > 0
    THEN assign(s, e, param_name, Cell(s, original)).s
    ELSE s

\* what follows the catch phase of the TryStatement arm: the finally
\* clause, then the statement's own result.  catch_block is the concretely
\* evaluated catch block (NoNode if there is none), caught whether the
\* catch block was entered concretely, pending the exception in flight
TryFinish(node, ctx, param_name, original, try_block, catch_block, caught, thrown, pending, s) ==
    LET e == EnvOf(s, ctx)
        Ended(s3, out, block) == Log(s3, TryEvent(node, thrown, caught, out, block))
        Emitted(s3, cb, block, finalizer_block) ==
            append_ast(Ended(s3, NoEx, block),
                       Try(block, Catch(node.handler.param, cb), finalizer_block))
        Finished(cb, fin) ==
            IF fin.ex # NoEx THEN Raise(Ended(fin.s, fin.ex, NoNode), fin.ex)
            ELSE IF pending # NoEx THEN Raise(Ended(fin.s, pending, NoNode), pending)
            ELSE Emitted(fin.s, cb,
                         IF try_block = NoNode THEN fin.s.error_state ELSE try_block,
                         fin.n)
        Finally(cb, s2) ==
            Finished(cb, IF node.finalizer = NoNode THEN OkN(s2, NoNode)
                         ELSE [get_stmt_wrapper(node.finalizer, ctx,
                                                [s2 EXCEPT !.fin = @ + 1])
                                  EXCEPT !.s.fin = @ - 1])
        Sandboxed(sim) ==
            IF sim.ex # NoEx THEN Raise(Ended(sim.s, sim.ex, NoNode), sim.ex)
            ELSE Finally(sim.n, RestoreParam(sim.s, e, param_name, original))
    IN  IF catch_block # NoNode THEN Finally(catch_block, s)
        ELSE Sandboxed(simplify_ambiguous_flow(
                           node.handler.body, ctx, "CatchClause", "",
                           IF param_name # ""
                           THEN assign(s, e, param_name, TaintedRef(param_name)).s
                           ELSE s))

evalTryStatement(node, ctx, s) ==
    LET handler == node.handler
        param_name == IF handler.param = NoNode THEN "" ELSE handler.param.name
        e == EnvOf(s, ctx)
        Caught(original, thrown, cb) ==
            IF cb.ex # NoEx
            THEN TryFinish(node, ctx, param_name, original, NoNode, NoNode, TRUE, thrown,
                           cb.ex, cb.s)
            ELSE TryFinish(node, ctx, param_name, original, NoNode,
                           IF cb.n = NoNode THEN Block(<<>>) ELSE cb.n, TRUE, thrown, NoEx,
                           RestoreParam(cb.s, e, param_name, original))
        Faulted(s3) ==
            Log(s3, FaultEvent(node, s3.error_state, s.callstack, s3.callstack))
        Saved(r0) ==
            LET original == IF param_name # "" /\ r0.ex = NoEx THEN r0.c ELSE 0
                s0 == IF param_name = "" THEN s
                      ELSE IF r0.ex = NoEx THEN r0.s
                      ELSE declare(s, e, param_name)
                b == Eval(node.block, ctx, [s0 EXCEPT !.return_stmt_flag = TRUE])
                s1 == [b.s EXCEPT !.return_stmt_flag = s.return_stmt_flag]
            IN  IF b.ex = NoEx
                THEN TryFinish(node, ctx, param_name, original, b.n, NoNode, FALSE, NoEx,
                               NoEx, s1)
                ELSE IF b.ex = Diverge THEN b
                ELSE IF IsDeobfuscatorException(b.ex)
                THEN TryFinish(node, ctx, param_name, original, NoNode, NoNode, FALSE, b.ex,
                               b.ex, s1)
                ELSE Caught(original, b.ex,
                            get_stmt_wrapper(
                                handler.body, ctx,
                                IF param_name # ""
                                THEN assign(Faulted(s1), e, param_name,
                                            TLValue(VErr(b.ex.k), FALSE)).s
                                ELSE Faulted(s1)))
    IN  IF handler = NoNode THEN Raise(s, TypeError)
        ELSE Saved(resolve(s, e, param_name))

\* one pass of a tainted loop's fixed point finished: same says whether
\* its residual body, test (and update) are tree-equivalent to the
\* previous pass's, stopped whether the fixed point ended there
PassEvent(type, pass, same, stopped) ==
    [k |-> "pass", loop |-> type, pass |-> pass, same |-> same, stopped |-> stopped]

\* pass `pass` of the fixed point of the tainted loop with context
\* exec_ctx starts, on this callstack
StartEvent(exec_ctx, pass, callstack) ==
    [k |-> "start", ctx |-> exec_ctx, pass |-> pass, callstack |-> callstack]

\* env.getLocalRecord().clear()
ClearRecord(s, env) == [s EXCEPT !.envs[env].record = <<>>]

RECURSIVE WhileFixedPoint(_, _, _, _, _, _, _, _)
\* the while (true) of the tainted WhileStatement / DoWhileStatement from
\* pass `pass` on; body / test_stmt are the previous pass's (NoNode / 0
\* before the first)
WhileFixedPoint(node, ctx, exec_ctx, env, body, test_stmt, pass, s) ==
    LET nb == Eval(node.body, exec_ctx,
                   [ClearRecord(Log(s, StartEvent(exec_ctx, pass, s.callstack)), env)
                       EXCEPT !.return_stmt_flag = TRUE])
        nt == Eval(node.test, ctx, [nb.s EXCEPT !.return_stmt_flag = s.return_stmt_flag])
        equal == /\ isNodesEquivalent(body, nb.n)
                 /\ isNodesEquivalent(Cell(nt.s, test_stmt).n, Cell(nt.s, nt.c).n)
        Emit(s4, tp) ==
            IF tp.ex # NoEx THEN Raise(s4, tp.ex)
            ELSE append_ast(s4, [type |-> node.type, test |-> tp.n, body |-> body])
        Stopped(s4) == Emit(s4, get_repr(s4, Cell(s4, test_stmt)))
        Passed(stop, s3) ==
            IF stop THEN Stopped(safe_pop_context(s3, exec_ctx))
            ELSE IF pass >= MaxPasses THEN Raise(s3, Diverge)
            ELSE WhileFixedPoint(node, ctx, exec_ctx, env, nb.n, nt.c, pass + 1, s3)
        Compared(same, stop) ==
            Passed(stop, Log(nt.s, PassEvent(node.type, pass, same, stop)))
    IN  IF nb.ex # NoEx THEN nb
        ELSE IF nt.ex # NoEx THEN nt
        ELSE IF nt.c <= 0 THEN Raise(nt.s, TypeError)
        ELSE Compared(pass > 1 /\ equal, body # NoNode /\ test_stmt > 0 /\ equal)

\* the tainted phase of the WhileStatement / DoWhileStatement arm
WhileTainted(node, ctx, s) ==
    LET env == NewEnv(s)
        exec_ctx == NewCtx(s)
    IN  WhileFixedPoint(node, ctx, exec_ctx, env, NoNode, 0, 1,
                        Push(AllocCtx(AllocEnv(s, Environment(<<>>, EnvOf(s, ctx),
                                                              TRUE, FALSE, TRUE)),
                                      ExecutionContext(env, node.type, "")),
                             exec_ctx))

RECURSIVE WhileLoop(_, _, _, _, _, _, _)
\* the untainted loop of the WhileStatement / DoWhileStatement arm: test
\* is the last test carrier, block_stmts the evaluated bodies, iter the
\* number of iterations done
WhileLoop(node, ctx, exec_ctx_1, test, block_stmts, iter, s) ==
    LET env_1 == EnvOf(s, exec_ctx_1)
        t == Cell(s, test)
        b == get_stmt_wrapper(node.body, exec_ctx_1, s)
        nt == Eval(node.test, ctx, b.s)
        End(stmts, out) ==
            IF Cell(out, test).t \/ is_tainted(out, env_1)
            THEN WhileTainted(node, ctx, out)
            ELSE append_ast(out, Block(stmts))
    IN  IF ~t.t /\ ~is_tainted(s, env_1) /\ Truthy(t.v)
        THEN IF iter >= MaxIter THEN Raise(s, Diverge)
             ELSE IF b.ex # NoEx THEN b
             ELSE IF Top(b.s) # exec_ctx_1
             THEN End(Append(block_stmts, b.n), safe_pop_context(b.s, exec_ctx_1))
             ELSE IF nt.ex # NoEx THEN nt
             ELSE IF nt.c <= 0 THEN Raise(nt.s, TypeError)
             ELSE WhileLoop(node, ctx, exec_ctx_1, nt.c, Append(block_stmts, b.n),
                            iter + 1, nt.s)
        ELSE End(block_stmts, safe_pop_context(s, exec_ctx_1))

\* new Environment(new Map(), ctx.environment, false, false, false) pushed
\* as the context of an untainted loop: [s, ctx]
LoopContext(type, ctx, s) ==
    LET env_1 == NewEnv(s)
        exec_ctx_1 == NewCtx(s)
    IN  [s |-> Push(AllocCtx(AllocEnv(s, Environment(<<>>, EnvOf(s, ctx),
                                                     FALSE, FALSE, FALSE)),
                             ExecutionContext(env_1, type, "")),
                    exec_ctx_1),
         ctx |-> exec_ctx_1]

evalWhileStatement(node, ctx, s) ==
    LET test == Eval(node.test, ctx, s)
        Loop1(l) == WhileLoop(node, ctx, l.ctx, test.c, <<>>, 0, l.s)
    IN  IF test.ex # NoEx THEN test
        ELSE IF test.c <= 0 THEN Raise(test.s, TypeError)
        ELSE Loop1(LoopContext("WhileStatement", ctx, test.s))

\* the body runs once before the first test: the loop starts from the
\* carrier { value: true, isTainted: false }
evalDoWhileStatement(node, ctx, s) ==
    LET Loop1(l) ==
            WhileLoop(node, ctx, l.ctx, NewId(l.s), <<>>, 0,
                      Alloc(l.s, TLValue(VBool(TRUE), FALSE)))
    IN  Loop1(LoopContext("DoWhileStatement", ctx, s))

\* the init of a ForStatement evaluated in context c under
\* return_stmt_flag: [s, n, ex]; asStmt wraps an expression init in an
\* ExpressionStatement (the untainted loop) or leaves it bare (the tainted)
ForInit(node, c, asStmt, s) ==
    LET r == Eval(node.init, c, [s EXCEPT !.return_stmt_flag = TRUE])
        back == [r.s EXCEPT !.return_stmt_flag = s.return_stmt_flag]
        Lifted(rp) ==
            IF rp.ex # NoEx THEN Raise(r.s, rp.ex)
            ELSE OkN(back, IF asStmt THEN ExprStmt(rp.n) ELSE rp.n)
    IN  IF node.init = NoNode THEN OkN(s, NoNode)
        ELSE IF r.ex # NoEx THEN r
        ELSE IF node.init.type = "VariableDeclaration" THEN OkN(back, r.n)
        ELSE IF r.c <= 0 THEN Raise(r.s, TypeError)
        ELSE Lifted(get_repr(r.s, Cell(r.s, r.c)))

\* the test of a ForStatement in context c: the carrier
\* { value: true, isTainted: false } when there is none
ForTest(node, c, s) ==
    IF node.test = NoNode THEN Fresh(s, TLValue(VBool(TRUE), FALSE))
    ELSE Eval(node.test, c, s)

RECURSIVE ForFixedPoint(_, _, _, _, _, _, _, _, _, _)
\* the while (true) of the tainted ForStatement from pass `pass` on
ForFixedPoint(node, ctx, exec_ctx, env, init_stmt, body, test_stmt, update_stmt, pass, s) ==
    LET nb == Eval(node.body, exec_ctx,
                   [ClearRecord(Log(s, StartEvent(exec_ctx, pass, s.callstack)), env)
                       EXCEPT !.return_stmt_flag = TRUE])
        nt == ForTest(node, ctx, [nb.s EXCEPT !.return_stmt_flag = s.return_stmt_flag])
        Emit(s4, tp) ==
            IF tp.ex # NoEx THEN Raise(s4, tp.ex)
            ELSE append_ast(s4, For(init_stmt, tp.n, update_stmt, body))
        Lift(s4, t) ==
            Emit(s4, IF t.v # VBool(TRUE) \/ t.t THEN get_repr(s4, t)
                     ELSE [ex |-> NoEx, n |-> NoNode])
        Stopped(s4) == Lift(s4, Cell(s4, test_stmt))
        Passed(up, stop, s3) ==
            IF stop THEN Stopped(safe_pop_context(s3, exec_ctx))
            ELSE IF pass >= MaxPasses THEN Raise(s3, Diverge)
            ELSE ForFixedPoint(node, ctx, exec_ctx, env, init_stmt, nb.n, nt.c, up.n,
                               pass + 1, s3)
        Logged(nu, up, same, stop) ==
            Passed(up, stop, Log(nu.s, PassEvent(node.type, pass, same, stop)))
        Compared(nu, up, body_equal, test_equal) ==
            Logged(nu, up,
                   /\ pass > 1
                   /\ body_equal
                   /\ test_equal
                   /\ isNodesEquivalent(update_stmt, up.n),
                   /\ body # NoNode
                   /\ test_stmt > 0
                   /\ body_equal
                   /\ Cell(nu.s, test_stmt).n # NoNode
                   /\ test_equal
                   /\ \/ update_stmt = NoNode /\ node.update = NoNode
                      \/ /\ update_stmt # NoNode
                         /\ node.update # NoNode
                         /\ isNodesEquivalent(update_stmt, up.n))
        Lifted(nu, up) ==
            IF up.ex # NoEx THEN Raise(nu.s, up.ex)
            ELSE Compared(nu, up, isNodesEquivalent(body, nb.n),
                          isNodesEquivalent(Cell(nu.s, test_stmt).n, Cell(nu.s, nt.c).n))
        Updated(nu) ==
            IF nu.ex # NoEx THEN nu
            ELSE IF node.update # NoNode /\ nu.c <= 0 THEN Raise(nu.s, TypeError)
            ELSE Lifted(nu, IF node.update = NoNode THEN [ex |-> NoEx, n |-> NoNode]
                            ELSE get_repr(nu.s, Cell(nu.s, nu.c)))
    IN  IF nb.ex # NoEx THEN nb
        ELSE IF nt.ex # NoEx THEN nt
        ELSE IF nt.c <= 0 THEN Raise(nt.s, TypeError)
        ELSE Updated(IF node.update = NoNode THEN Void(nt.s)
                     ELSE Eval(node.update, exec_ctx, nt.s))

\* the tainted phase of the ForStatement arm: the init is evaluated again,
\* in the enclosing context
ForTainted(node, ctx, s) ==
    LET env == NewEnv(s)
        exec_ctx == NewCtx(s)
        Started(init) ==
            IF init.ex # NoEx THEN init
            ELSE ForFixedPoint(node, ctx, exec_ctx, env, init.n, NoNode, 0, NoNode, 1,
                               init.s)
    IN  Started(ForInit(node, ctx, FALSE,
                        Push(AllocCtx(AllocEnv(s, Environment(<<>>, EnvOf(s, ctx),
                                                              TRUE, FALSE, TRUE)),
                                      ExecutionContext(env, "ForStatement", "")),
                             exec_ctx)))

\* the end of the untainted loop of the ForStatement arm
ForEnd(node, ctx, exec_ctx_1, init_stmt, test, block_stmts, s) ==
    LET Left(out) ==
            IF Cell(out, test).t \/ is_tainted(out, EnvOf(out, exec_ctx_1))
            THEN ForTainted(node, ctx, out)
            ELSE append_ast(out, Block(IF init_stmt = NoNode THEN block_stmts
                                       ELSE <<init_stmt>> \o block_stmts))
    IN  Left(safe_pop_context(s, exec_ctx_1))

RECURSIVE ForLoop(_, _, _, _, _, _, _, _)
\* the untainted loop of the ForStatement arm
ForLoop(node, ctx, exec_ctx_1, init_stmt, test, block_stmts, iter, s) ==
    LET t == Cell(s, test)
        b == get_stmt_wrapper(node.body, exec_ctx_1, s)
        u == Eval(node.update, exec_ctx_1, [b.s EXCEPT !.return_stmt_flag = TRUE])
        Tested(evaluated_block, nt) ==
            IF nt.ex # NoEx THEN nt
            ELSE IF nt.c <= 0 THEN Raise(nt.s, TypeError)
            ELSE ForLoop(node, ctx, exec_ctx_1, init_stmt, nt.c,
                         Append(block_stmts, evaluated_block), iter + 1, nt.s)
        Again(evaluated_block, s1) ==
            Tested(evaluated_block, IF node.test = NoNode THEN Ok(s1, test)
                                    ELSE Eval(node.test, exec_ctx_1, s1))
        Updated(up) ==
            IF up.ex # NoEx THEN Raise(u.s, up.ex)
            ELSE IF b.n.type # "BlockStatement" THEN Raise(u.s, TypeError)
            ELSE Again(Block(Append(b.n.body, ExprStmt(up.n))),
                       [u.s EXCEPT !.return_stmt_flag = b.s.return_stmt_flag])
        End(stmts, s1) == ForEnd(node, ctx, exec_ctx_1, init_stmt, test, stmts, s1)
    IN  IF ~t.t /\ ~is_tainted(s, EnvOf(s, exec_ctx_1)) /\ Truthy(t.v)
        THEN IF iter >= MaxIter THEN Raise(s, Diverge)
             ELSE IF b.ex # NoEx THEN b
             ELSE IF Top(b.s) # exec_ctx_1 THEN End(Append(block_stmts, b.n), b.s)
             ELSE IF node.update = NoNode THEN Again(b.n, b.s)
             ELSE IF u.ex # NoEx THEN u
             ELSE IF u.c <= 0 THEN Raise(u.s, TypeError)
             ELSE Updated(get_repr(u.s, Cell(u.s, u.c)))
        ELSE End(block_stmts, s)

evalForStatement(node, ctx, s) ==
    LET Tested(loop_ctx, init, test) ==
            IF test.ex # NoEx THEN test
            ELSE IF test.c <= 0 THEN Raise(test.s, TypeError)
            ELSE ForLoop(node, ctx, loop_ctx, init.n, test.c, <<>>, 0, test.s)
        Started(loop_ctx, init) ==
            IF init.ex # NoEx THEN init
            ELSE Tested(loop_ctx, init, ForTest(node, loop_ctx, init.s))
        Entered(l) == Started(l.ctx, ForInit(node, l.ctx, TRUE, l.s))
    IN  Entered(LoopContext("ForStatement", ctx, s))

\* eval(node, ctx): the arm of the node's type; any other node is not
\* implemented
Dispatch(node, ctx, s) ==
    CASE node.type = "ExpressionStatement" -> evalExpressionStatement(node, ctx, s)
      [] node.type \in LiteralTypes -> evalLiteral(node, ctx, s)
      [] node.type = "VariableDeclaration" -> evalVariableDeclaration(node, ctx, s)
      [] node.type = "VariableDeclarator" -> evalVariableDeclarator(node, ctx, s)
      [] node.type = "Identifier" -> evalIdentifier(node, ctx, s)
      [] node.type = "BinaryExpression" -> evalBinaryExpression(node, ctx, s)
      [] node.type = "LogicalExpression" -> evalLogicalExpression(node, ctx, s)
      [] node.type = "EmptyStatement" -> evalEmptyStatement(node, ctx, s)
      [] node.type = "SequenceExpression" -> evalSequenceExpression(node, ctx, s)
      [] node.type = "UnaryExpression" -> evalUnaryExpression(node, ctx, s)
      [] node.type = "UpdateExpression" -> evalUpdateExpression(node, ctx, s)
      [] node.type = "ConditionalExpression" -> evalConditionalExpression(node, ctx, s)
      [] node.type = "IfStatement" -> evalIfStatement(node, ctx, s)
      [] node.type = "BlockStatement" -> evalBlockStatement(node, ctx, s)
      [] node.type = "AssignmentExpression" -> evalAssignmentExpression(node, ctx, s)
      [] node.type = "FunctionDeclaration" -> evalFunctionDeclaration(node, ctx, s)
      [] node.type = "FunctionExpression" -> evalFunctionExpression(node, ctx, s)
      [] node.type = "CallExpression" -> evalCallExpression(node, ctx, s)
      [] node.type = "ReturnStatement" -> evalReturnStatement(node, ctx, s)
      [] node.type = "TryStatement" -> evalTryStatement(node, ctx, s)
      [] node.type = "LabeledStatement" -> evalLabeledStatement(node, ctx, s)
      [] node.type = "BreakStatement" -> evalBreakStatement(node, ctx, s)
      [] node.type = "WhileStatement" -> evalWhileStatement(node, ctx, s)
      [] node.type = "DoWhileStatement" -> evalDoWhileStatement(node, ctx, s)
      [] node.type = "ForStatement" -> evalForStatement(node, ctx, s)
      [] node.type = "ArrayExpression" -> evalArrayExpression(node, ctx, s)
      [] node.type = "MemberExpression" -> evalMemberExpression(node, ctx, s)
      [] node.type = "OptionalMemberExpression" ->
            evalOptionalMemberExpression(node, ctx, s)
      [] OTHER -> Raise(s, NotImplementedException)

\* a tainted carrier eval returned from a node of this type, with or
\* without a node of its own
Returned(type, hasNode) == [type |-> type, hasNode |-> hasNode]

\* the tainted carrier in the result r of the arm for node, if there is one
Carrier(node, r) ==
    IF r.ex = NoEx /\ r.c > 0 /\ Cell(r.s, r.c).t
    THEN {Returned(node.type, Cell(r.s, r.c).n # NoNode)}
    ELSE {}

\* the result r of the arm for node, with the tainted carrier it returned
\* noted
Noted(node, r) == [r EXCEPT !.s.rets = @ \cup Carrier(node, r)]

Eval(node, ctx, s) ==
    Noted(node, Dispatch(node, ctx, Log(s, EvalEvent(node, ctx, s.fin > 0))))

(***************************************************************************)
(* The run of the interpreter over a program (test_ast): a global context  *)
(* over new Environment(), then eval of the Program, one top-level         *)
(* statement per step.                                                     *)
(***************************************************************************)
\* new TaintInterpreter(globalCtx) with globalCtx over new Environment()
InitState ==
    [envs |-> <<Environment(<<>>, 0, FALSE, FALSE, FALSE)>>,
     ctxs |-> <<ExecutionContext(1, "", "")>>,
     heap |-> <<TLValue(VNull, FALSE)>>,
     arrs |-> <<>>,
     callstack |-> <<1>>,
     ast |-> <<>>,
     return_stmt_flag |-> FALSE,
     returnValue |-> 1,
     error_state |-> Block(<<>>),
     log |-> <<>>,
     rets |-> {},
     fin |-> 0]

globalCtx == 1

(***************************************************************************)
(* The programs the interpreter is run on, built from small sets of        *)
(* statement shapes.  `tainted` is never declared: the evaluator cannot    *)
(* resolve it.                                                             *)
(***************************************************************************)
X == Id("x")
Y == Id("y")
T == Id("tainted")
Set(name, e) == ExprStmt(Assign("=", Id(name), e))
CallF == Call(Id("f"), <<>>)

\* bodies of function f
FunctionBodies ==
    { <<Set("x", Num(1))>>,
      <<Return(Num(1))>>,
      <<Return(Num(1)), Set("x", Num(2))>>,
      <<If(T, Block(<<Return(X)>>), NoNode)>>,
      <<If(T, Block(<<Return(Num(1))>>), NoNode), Set("x", Num(2)), Return(Num(3))>>,
      <<While(T, Block(<<Return(Num(1))>>)), Set("x", Num(2)), Return(Num(3))>>,
      <<Labeled("L", Block(<<Return(Num(1))>>)), Set("x", Num(2))>>,
      <<While(Bool(TRUE), Block(<<Set("x", Bin("+", X, Num(1))), Return(X)>>)),
        Set("x", Num(9))>>,
      <<ExprStmt(Id("arguments"))>> }

\* statements that use f
Uses ==
    { ExprStmt(CallF),
      Var("y", CallF),
      Var("y", Bin("+", CallF, Num(1))),
      Set("x", CallF),
      If(T, Block(<<ExprStmt(CallF)>>), NoNode) }

FunctionPrograms ==
    { Program(<<Var("x", Num(0)), FunDecl("f", <<>>, Block(body)), use, ExprStmt(X)>>) :
        body \in FunctionBodies, use \in Uses }

\* bodies of a branch, a loop or a labeled statement
Bodies ==
    { Block(<<Set("x", Num(1))>>),
      Block(<<Labeled("L", Block(<<Set("x", Num(1))>>))>>),
      Block(<<DoWhile(Bool(FALSE), Block(<<Set("x", Num(1))>>))>>),
      Block(<<Labeled("L", Block(<<Labeled("M", Block(<<Break(Id("L")), Set("y", Num(1))>>))>>)),
              Set("y", Num(2))>>),
      Block(<<If(T, Block(<<Break(NoNode)>>), NoNode), Set("x", Bin("+", X, Num(1)))>>),
      Block(<<Set("x", Bin("+", X, Num(1))), Set("y", T)>>) }

Tests == {T, Bool(TRUE), Bin("<", X, Num(2))}

ControlStatements ==
    {If(t, b, NoNode) : t \in Tests, b \in Bodies}
    \cup {While(t, b) : t \in Tests, b \in Bodies}
    \cup {DoWhile(t, b) : t \in Tests, b \in Bodies}
    \cup {For(NoNode, t, NoNode, b) : t \in Tests \cup {NoNode}, b \in Bodies}
    \cup {Labeled("K", b) : b \in Bodies}

ControlPrograms ==
    { Program(<<VarDecl("var", <<Declarator("x", Num(0)), Declarator("y", Num(0))>>),
                stmt, ExprStmt(X), ExprStmt(Y)>>) : stmt \in ControlStatements }

\* try bodies: an unsupported statement, a write to an unresolved name, a
\* carrier that cannot be lifted, and two that do not throw
TryBodies ==
    { Block(<<Throw(Num(1))>>),
      Block(<<Set("zz", Num(1))>>),
      Block(<<ExprStmt(Id("undefined"))>>),
      Block(<<Set("x", Num(5))>>),
      Block(<<Set("x", T)>>) }

TryPrograms ==
    { Program(<<Var("x", Num(0)),
                Try(body, Catch(Id("e"), Block(<<Set("x", Num(1))>>)), fin),
                ExprStmt(X)>>) :
        body \in TryBodies, fin \in {NoNode, Block(<<Set("x", Num(7))>>)} }

\* bodies of a function f that return no value, beside a function g that
\* returns one
BareBodies ==
    { <<Return(NoNode)>>,
      <<Set("x", Num(1)), Return(NoNode)>>,
      <<ExprStmt(Call(Id("g"), <<>>))>>,
      <<ExprStmt(Call(Id("g"), <<>>)), Return(NoNode)>>,
      <<FunDecl("h", <<>>, Block(<<Return(Num(7))>>))>>,
      <<FunDecl("h", <<>>, Block(<<Return(Num(7))>>)), Return(NoNode)>> }

BarePrograms ==
    { Program(<<Var("x", Num(0)), FunDecl("g", <<>>, Block(<<Return(Num(5))>>)),
                FunDecl("f", <<>>, Block(body)), Var("y", CallF), ExprStmt(Y)>>) :
        body \in BareBodies }

\* untainted right-hand sides of an assignment, each with the value the
\* host gives it
AssignedValues ==
    { [e |-> Unary("void", Num(0)), v |-> VUndef],
      [e |-> NullLit, v |-> VNull],
      [e |-> Num(0), v |-> VNum(0)],
      [e |-> Bool(FALSE), v |-> VBool(FALSE)],
      [e |-> Str(""), v |-> VStr("")],
      [e |-> Num(2), v |-> VNum(2)] }

AssignProgram(e) == Program(<<Var("x", Num(1)), Set("x", e), ExprStmt(X)>>)

AssignPrograms == {AssignProgram(a.e) : a \in AssignedValues}

A == Id("a")
At(o, k) == Member(o, k, TRUE)

\* writes to an element of the array a = [10, 20, 30]
ElementWrites ==
    { Assign("+=", At(A, Num(0)), Num(5)),
      Assign("=", At(A, Num(0)), Num(5)),
      Assign("=", At(A, Num(2)), Num(5)),
      Assign("+=", At(A, Num(2)), T) }

\* the write w in a branch of an if statement with a tainted test, in the
\* branch's block itself or in a labeled block of it
BranchWriteProgram(w, labeled) ==
    Program(<<Var("a", ArrE(<<Num(10), Num(20), Num(30)>>)),
              If(T, Block(<<IF labeled THEN Labeled("L", Block(<<ExprStmt(w)>>))
                            ELSE ExprStmt(w)>>), NoNode),
              ExprStmt(w.left), ExprStmt(At(A, Num(1)))>>)

BranchWritePrograms ==
    {BranchWriteProgram(w, labeled) : w \in ElementWrites, labeled \in BOOLEAN}

\* writes w through a tainted key into a = [[1, 2], [3]], each with the
\* deepest sub-object reached through the untainted keys before it
KeyedWrites ==
    { [w |-> Assign("=", At(At(A, Num(0)), T), Num(9)), sub |-> At(A, Num(0))],
      [w |-> Assign("+=", At(At(A, Num(0)), T), Num(9)), sub |-> At(A, Num(0))],
      [w |-> Assign("=", At(A, T), Num(9)), sub |-> A],
      [w |-> Assign("=", At(At(A, T), Num(0)), Num(9)), sub |-> A],
      [w |-> Assign("+=", At(At(A, T), Num(0)), Num(9)), sub |-> A] }

KeyedWriteProgram(w) ==
    Program(<<Var("a", ArrE(<<ArrE(<<Num(1), Num(2)>>), ArrE(<<Num(3)>>)>>)),
              ExprStmt(w), ExprStmt(At(At(A, Num(0)), Num(0)))>>)

KeyedWritePrograms == {KeyedWriteProgram(k.w) : k \in KeyedWrites}

\* a[k] = e, all untainted, on an array with or without an element at k
StoreProgram(init, k, e) ==
    Program(<<Var("a", init), ExprStmt(Assign("=", At(A, Num(k)), e)),
              ExprStmt(At(A, Num(k)))>>)

StoreInits == {ArrE(<<>>), ArrE(<<Num(10)>>), ArrE(<<Num(10), Num(20)>>)}

StoreKeys == {0, 1}

StorePrograms ==
    {StoreProgram(init, k, a.e) : init \in StoreInits, k \in StoreKeys,
                                  a \in AssignedValues}

\* statements that use the undeclared zz in the body of a loop with a
\* tainted test, and in a function body
UnresolvedPrograms ==
    { Program(<<While(T, Block(<<Set("zz", Num(1))>>))>>),
      Program(<<While(T, Block(<<ExprStmt(Id("zz"))>>))>>),
      Program(<<FunDecl("f", <<>>, Block(<<Set("zz", Num(1))>>))>>) }

\* breaks in a labeled block of a loop, and a break to a label that no
\* enclosing statement carries
BreakPrograms ==
    { Program(<<Var("x", Num(0)),
                DoWhile(Bool(FALSE), Block(<<Labeled("L", Block(<<Break(NoNode)>>)),
                                             Set("x", Num(1))>>)),
                ExprStmt(X)>>),
      Program(<<Var("x", Num(0)),
                DoWhile(Bool(FALSE), Block(<<Labeled("L", Block(<<Break(Id("L"))>>)),
                                             Set("x", Num(1))>>)),
                ExprStmt(X)>>),
      Program(<<Var("x", Num(0)),
                Labeled("L", Block(<<Break(Id("Q")), Set("x", Num(1))>>)),
                ExprStmt(X)>>) }

\* statements that raise an exception a try statement handles: the plain
\* Error of get_repr, and the TypeError of a property read on null
Faults == {ExprStmt(Id("undefined")), ExprStmt(Member(Id("n"), Num(0), TRUE))}

\* a body that fails after one statement
FailingBody(k, fault) == Block(<<Set("x", Num(k)), fault>>)

InnerTry(fault) ==
    Try(FailingBody(6, fault), Catch(Id("e"), Block(<<Set("x", Num(1))>>)), NoNode)

\* a failing body under a handler or a finalizer that may hold another try
\* statement whose body fails too
NestedTry(fault) ==
    { Try(FailingBody(5, fault), Catch(Id("e"), handler), fin) :
        handler \in {Block(<<Set("x", Num(1))>>), Block(<<InnerTry(fault)>>)},
        fin \in {NoNode, Block(<<Set("x", Num(7))>>), Block(<<InnerTry(fault)>>)} }

NestedTryPrograms ==
    { Program(<<VarDecl("var", <<Declarator("x", Num(0)), Declarator("n", NullLit)>>),
                try, ExprStmt(X)>>) :
        try \in UNION {NestedTry(fault) : fault \in Faults} }

\* a try statement whose body raises nothing, its parameter unbound,
\* declared without a value, or bound to a number before the statement
ParamPrograms ==
    { Program(<<Var("x", Num(0))>> \o decl
              \o <<Try(Block(<<Set("x", Num(5))>>), Catch(Id("e"), Block(<<w>>)), NoNode),
                   ExprStmt(X)>>) :
        decl \in {<<>>, <<Var("e", NoNode)>>, <<Var("e", Num(3))>>},
        w \in {Set("x", Num(1)), Set("e", Num(2))} }

LogicalOps == {"&&", "||", "??"}

\* left operands of a logical expression, and right operands that are
\* tainted or have a side effect
Lefts == {Bool(FALSE), Bool(TRUE), Num(0), Str(""), NullLit, Unary("void", Num(0)), X}

Rights == {T, Assign("=", X, Num(1)), Assign("=", X, T)}

ShortCircuitPrograms ==
    { Program(<<Var("x", Num(0)), ExprStmt(Logical(op, a, b)), ExprStmt(X)>>) :
        op \in LogicalOps, a \in {Bool(FALSE), Bool(TRUE), NullLit},
        b \in {T, Assign("=", X, Num(1))} }

\* reads of elements that an array, a nested array, or a null or
\* undefined object does not have
MissingReads ==
    { At(A, Num(5)), At(At(A, Num(0)), Num(5)), At(At(A, Num(1)), Num(1)),
      OptMember(A, Num(5), TRUE), OptMember(At(A, Num(0)), Num(5), TRUE),
      OptMember(At(A, Num(5)), Num(0), TRUE), OptMember(NullLit, Num(0), TRUE),
      OptMember(NullLit, Id("length"), FALSE) }

MissingReadPrograms ==
    { Program(<<Var("a", ArrE(<<ArrE(<<Num(1), Num(2)>>), ArrE(<<Num(3)>>)>>)),
                Var("y", Logical("??", m, Num(4))),
                ExprStmt(At(At(A, Num(0)), Num(0)))>>) :
        m \in MissingReads }

Rest(name) == [type |-> "RestElement", argument |-> Id(name)]

Pattern(name) == [type |-> "ArrayPattern", elements |-> <<Id(name)>>]

\* function f() {} with the generator and async flags
Flagged(generator, async, params) ==
    [type |-> "FunctionDeclaration", id |-> Id("f"), params |-> params,
     body |-> Block(<<>>), generator |-> generator, async |-> async]

\* statements the interpreter does not support
Unsupported ==
    { VarDecl("let", <<Declarator("x", Num(1))>>),
      VarDecl("const", <<Declarator("x", Num(1))>>),
      Flagged(TRUE, FALSE, <<>>), Flagged(FALSE, TRUE, <<>>),
      Flagged(FALSE, FALSE, <<Rest("r")>>), Flagged(FALSE, FALSE, <<Pattern("p")>>),
      Flagged(FALSE, FALSE, <<Id("a"), Rest("r")>>),
      Flagged(FALSE, FALSE, <<Id("a"), Pattern("p")>>) }

UnsupportedPrograms == {Program(<<stmt, ExprStmt(Num(1))>>) : stmt \in Unsupported}

\* loops with a tainted test whose body counts x in a labeled block
CountingBody ==
    Block(<<Labeled("L", Block(<<ExprStmt(Update("++", FALSE, X))>>)),
            Set("y", Bin("<", X, Num(3)))>>)

CountingPrograms ==
    { Program(<<VarDecl("var", <<Declarator("x", Num(0)), Declarator("y", Num(0))>>),
                loop, ExprStmt(Y)>>) :
        loop \in {While(T, CountingBody), DoWhile(T, CountingBody)} }

\* bodies of a loop with a tainted test that leave it by a break or a
\* return of their own
ExitBodies ==
    { Block(<<Set("x", Num(1)), Break(NoNode)>>),
      Block(<<Return(Num(1))>>),
      Block(<<Set("x", Num(1))>>) }

ExitLoops ==
    {While(T, b) : b \in ExitBodies} \cup {DoWhile(T, b) : b \in ExitBodies}
    \cup {For(NoNode, T, NoNode, b) : b \in ExitBodies}

\* the loop at the top level, in a loop and in a function
ExitPrograms ==
    {Program(<<Var("x", Num(0)), l, ExprStmt(X)>>) : l \in ExitLoops}
    \cup {Program(<<Var("x", Num(0)), While(Bool(TRUE), Block(<<l>>)), ExprStmt(X)>>) :
            l \in ExitLoops}
    \cup {Program(<<Var("x", Num(0)), FunDecl("f", <<>>, Block(<<l>>)), ExprStmt(X)>>) :
            l \in ExitLoops}

\* the read n[0] of the null n, a host TypeError
NullRead == ExprStmt(Member(Id("n"), Num(0), TRUE))

\* try bodies that raise the TypeError in their own block, in a labeled
\* statement, in a loop, in a branch of an if statement with a tainted
\* test, and in a called function
NestedFaults ==
    { Block(<<NullRead>>),
      Block(<<Labeled("L", Block(<<NullRead>>))>>),
      Block(<<While(Bool(TRUE), Block(<<NullRead>>))>>),
      Block(<<If(T, Block(<<NullRead>>), NoNode)>>),
      Block(<<ExprStmt(CallF)>>) }

NestedFaultPrograms ==
    { Program(<<VarDecl("var", <<Declarator("x", Num(0)), Declarator("y", Num(0)),
                                 Declarator("n", NullLit)>>),
                Var("f", FunExpr(<<>>, Block(<<NullRead>>))),
                Try(body, Catch(Id("e"), Block(<<Set("x", Num(1)), Set("y", Num(2))>>)),
                    NoNode),
                ExprStmt(Y)>>) :
        body \in NestedFaults }

\* regions that write element 0 of the array a of the enclosing scope:
\* through a itself, through a local variable b aliasing it, and through
\* the parameter p of the function f called there
RegionWrites ==
    { <<ExprStmt(Assign("=", At(A, Num(0)), Num(5)))>>,
      <<Var("b", A), ExprStmt(Assign("=", At(Id("b"), Num(0)), Num(5)))>>,
      <<ExprStmt(Call(Id("f"), <<A>>))>> }

\* the region as a branch of an if statement, or the body of a loop, with
\* a tainted test
AliasPrograms ==
    { Program(<<Var("a", ArrE(<<Num(10), Num(20)>>)),
                FunDecl("f", <<Id("p")>>,
                        Block(<<ExprStmt(Assign("=", At(Id("p"), Num(0)), Num(5)))>>)),
                region, ExprStmt(At(A, Num(1)))>>) :
        region \in {If(T, Block(w), NoNode) : w \in RegionWrites}
                    \cup {While(T, Block(w)) : w \in RegionWrites} }

\* tests that write the enclosing x before reading the tainted name
WritingTests ==
    { Bin("<", Assign("=", X, Num(5)), T),
      Bin("<", Update("++", FALSE, X), T),
      SeqE(<<Assign("=", X, Num(5)), T>>) }

\* a loop with such a test, and a body that writes y
TestWritePrograms ==
    { Program(<<VarDecl("var", <<Declarator("x", Num(0)), Declarator("y", Num(0))>>),
                loop, ExprStmt(Y)>>) :
        loop \in {While(w, Block(<<Set("y", Num(1))>>)) : w \in WritingTests}
                 \cup {For(NoNode, w, NoNode, Block(<<Set("y", Num(1))>>)) : w \in WritingTests} }

\* for statements whose init writes the enclosing x: the test is the
\* tainted name at once, becomes false after one iteration, or is tainted
\* by the body
InitLoops ==
    { For(i, test, NoNode, Block(<<Set("y", Bin("+", Y, u))>>)) :
        i \in {Update("++", FALSE, X), Assign("+=", X, Num(1))},
        test \in {T, Bin("<", Y, Num(1))},
        u \in {Num(1), T} }

InitPrograms ==
    { Program(<<VarDecl("var", <<Declarator("x", Num(0)), Declarator("y", Num(0))>>),
                loop, ExprStmt(Y)>>) : loop \in InitLoops }

\* a call whose arguments write the enclosing x, of the declared f and of
\* the tainted name
ArgumentPrograms ==
    { Program(<<Var("x", Num(0)),
                FunDecl("f", <<Id("p"), Id("q")>>, Block(<<Return(Num(1))>>)),
                ExprStmt(Call(callee, <<Assign("=", X, Num(5)), Update("++", FALSE, X)>>)),
                ExprStmt(X)>>) :
        callee \in {Id("f"), T} }

\* a finalizer of two statements, each adding to a variable of its own
Finalizer ==
    Block(<<Set("x", Bin("+", X, Num(1))), Set("y", Bin("+", Y, Num(2)))>>)

\* try { body } catch (e) {} finally { x = x + 1; y = y + 2; }
Finally(body) == Try(Block(body), Catch(Id("e"), Block(<<>>)), Finalizer)

\* the try body completes, raises a handled error, breaks out of a loop,
\* or returns from a called function
FinallyStatements ==
    { <<Finally(<<Set("z", Num(1))>>), ExprStmt(Y)>>,
      <<Finally(<<ExprStmt(Id("undefined"))>>), ExprStmt(Y)>>,
      <<While(Bool(TRUE), Block(<<Finally(<<Break(NoNode)>>)>>)), ExprStmt(Y)>>,
      <<FunDecl("f", <<>>, Block(<<Finally(<<Return(Num(1))>>)>>)), ExprStmt(CallF),
        ExprStmt(Y)>> }

FinallyPrograms ==
    { Program(<<VarDecl("var", <<Declarator("x", Num(0)), Declarator("y", Num(0)),
                                 Declarator("z", Num(0))>>)>> \o stmts) :
        stmts \in FinallyStatements }

\* else-if tests that write the enclosing x, tainted and untainted
ElseTests ==
    { Bin("<", Update("++", FALSE, X), T),
      Bin("<", Update("++", FALSE, X), Num(5)),
      Bin("<", T, Update("++", FALSE, X)) }

\* if (tainted) { y = 1; } else if (test) { y = 2; }
ElseIfPrograms ==
    { Program(<<VarDecl("var", <<Declarator("x", Num(0)), Declarator("y", Num(0))>>),
                If(T, Block(<<Set("y", Num(1))>>),
                   If(test, Block(<<Set("y", Num(2))>>), NoNode)),
                ExprStmt(Y)>>) :
        test \in ElseTests }

\* the key i++ and the right-hand side j++ of an element assignment
Key == Update("++", FALSE, Id("i"))
Rhs == Update("++", FALSE, Id("j"))

\* element assignments with that key: of the array a, of an element of the
\* nested array b, and of the tainted name
KeyTargets == {At(A, Key), At(At(Id("b"), Num(0)), Key), At(At(Id("b"), Key), Num(0)), At(T, Key)}

KeyPrograms ==
    { Program(<<VarDecl("var", <<Declarator("a", ArrE(<<Num(10), Num(20), Num(30)>>)),
                                 Declarator("b", ArrE(<<ArrE(<<Num(1), Num(2)>>),
                                                        ArrE(<<Num(3), Num(4)>>)>>)),
                                 Declarator("i", Num(0)), Declarator("j", Num(0))>>),
                ExprStmt(Assign(op, target, Rhs)),
                ExprStmt(Id("i"))>>) :
        op \in {"=", "+="}, target \in KeyTargets }

\* bodies of a function f(p): p is returned, only read, or unused, and the
\* enclosing x is returned, plainly and under a tainted test
CarrierBodies ==
    { <<Return(Id("p"))>>,
      <<ExprStmt(Id("p")), Return(Num(1))>>,
      <<Return(Num(1))>>,
      <<Return(X)>>,
      <<If(T, Block(<<Return(X)>>), NoNode)>> }

CarrierArguments == {T, Num(1), X, Bin("+", T, Num(1))}

CarrierPrograms ==
    { Program(<<Var("x", Num(0)), FunDecl("f", <<Id("p")>>, Block(body)),
                ExprStmt(Call(Id("f"), <<arg>>)), ExprStmt(X)>>) :
        body \in CarrierBodies, arg \in CarrierArguments }

\* bodies of a function that write, declare, read and return names of the
\* enclosing scope, return from a branch and from a loop, write an element
\* of the enclosing array, and read an element of a local null
FrameBodies ==
    { <<Set("x", Num(1))>>,
      <<ExprStmt(Update("++", FALSE, X))>>,
      <<Var("x", Num(1))>>,
      <<Return(X)>>,
      <<If(T, Block(<<Return(Num(1))>>), NoNode), Set("x", Num(2))>>,
      <<While(Bool(TRUE), Block(<<Return(Num(1))>>)), Set("x", Num(2))>>,
      <<ExprStmt(Assign("=", At(A, Num(0)), Num(5)))>>,
      <<Var("n", NullLit), ExprStmt(At(Id("n"), Num(0)))>> }

\* the function as a declaration and as an expression
FramePrograms ==
    { Program(<<VarDecl("var", <<Declarator("x", Num(0)),
                                 Declarator("a", ArrE(<<Num(10)>>))>>),
                fn, ExprStmt(X)>>) :
        fn \in {FunDecl("f", <<Id("p")>>, Block(b)) : b \in FrameBodies}
               \cup {ExprStmt(FunExpr(<<Id("p")>>, Block(b))) : b \in FrameBodies} }

Programs ==
    FunctionPrograms \cup ControlPrograms \cup TryPrograms \cup BarePrograms
    \cup AssignPrograms \cup BranchWritePrograms \cup KeyedWritePrograms
    \cup StorePrograms \cup UnresolvedPrograms \cup BreakPrograms
    \cup NestedTryPrograms \cup ParamPrograms \cup ShortCircuitPrograms
    \cup MissingReadPrograms \cup UnsupportedPrograms \cup CountingPrograms
    \cup ExitPrograms \cup NestedFaultPrograms \cup AliasPrograms \cup TestWritePrograms \cup InitPrograms \cup ArgumentPrograms \cup FinallyPrograms \cup ElseIfPrograms \cup KeyPrograms \cup CarrierPrograms \cup FramePrograms

Init ==
    /\ prog \in Programs
    /\ pc = 1
    /\ st = InitState
    /\ status = "running"

\* the step to the state eval left: r is the outcome of the statement at pc
Advance(r) ==
    /\ st' = r.s
    /\ pc' = pc + 1
    /\ status' = IF r.ex # NoEx THEN r.ex.k
                 ELSE IF pc = Len(prog.body) THEN "done"
                 ELSE "running"

\* node.body.forEach(eval): the statement at pc, of the given type; an
\* exception ends the run
EvalStatement(type) ==
    /\ status = "running"
    /\ pc <= Len(prog.body)
    /\ prog.body[pc].type = type
    /\ Advance(Eval(prog.body[pc], globalCtx, st))
    /\ UNCHANGED prog

Next ==
    \/ EvalStatement("ExpressionStatement")
    \/ EvalStatement("VariableDeclaration")
    \/ EvalStatement("FunctionDeclaration")
    \/ EvalStatement("IfStatement")
    \/ EvalStatement("WhileStatement")
    \/ EvalStatement("DoWhileStatement")
    \/ EvalStatement("ForStatement")
    \/ EvalStatement("LabeledStatement")
    \/ EvalStatement("TryStatement")

Spec == Init /\ [][Next]_vars

(***************************************************************************)
(* Properties                                                              *)
(***************************************************************************)
InSeq(x, seq) == \E i \in DOMAIN seq : seq[i] = x

\* C2: after an if statement with a tainted test has been evaluated, every
\* variable of an enclosing scope that was assigned inside its branches
\* (directly, or from a labeled statement, an untainted loop or a called
\* function nested there) holds a tainted reference to its own name.
C2_BranchWritesBecomeReferences ==
    \A i \in DOMAIN st.log :
        st.log[i].k = "ifend" => st.log[i].notRef = {}

\* C3: every carrier that eval returns tainted has a node, including the
\* carriers read back from variables after calls and reads of `arguments`.
C3_TaintedCarriersHaveNode ==
    \A r \in st.rets : r.hasNode

\* C4: a return evaluated while a scope between it and the innermost
\* function context has taint_parent_writes set is conditional: the
\* function context stays on the callstack, its environment gets
\* taint_parent_writes, and the call yields a tainted carrier.
C4_TaintedReturnIsConditional ==
    \A i \in DOMAIN st.log :
        LET e == st.log[i]
        IN  (e.k = "return" /\ e.chainTainted) =>
                /\ InSeq(e.func, e.after)
                /\ e.funcTainted
                /\ \A j \in (i + 1)..Len(st.log) :
                       (st.log[j].k = "callend" /\ st.log[j].fctx = e.func)
                           => st.log[j].tainted

\* C5: a break is executed concretely (contexts popped through its target,
\* nothing emitted) exactly when no scope from the break's scope up to the
\* target has taint_parent_writes set; otherwise the target stays on the
\* callstack, tainted.  Taint on scopes enclosing the target plays no part.
C5_BreakChoiceLooksOnlyBelowTarget ==
    \A i \in DOMAIN st.log :
        LET e == st.log[i]
        IN  e.k = "break" =>
                /\ e.concrete <=> ~e.between
                /\ e.concrete => ~InSeq(e.target, e.after)
                /\ ~e.concrete => InSeq(e.target, e.after) /\ e.targetTainted

\* the log positions of the returns that ran with no tainted scope between
\* them and their function context
UnconditionalReturns ==
    {i \in DOMAIN st.log :
        /\ st.log[i].k = "return"
        /\ ~st.log[i].chainTainted
        /\ ~st.log[i].stackTainted}

\* the contexts from the function context of return event e to the top of
\* the callstack it ran on
Unwound(e) ==
    LET fi == CHOOSE j \in DOMAIN e.before : e.before[j] = e.func
    IN  {e.before[j] : j \in fi..Len(e.before)}

Diagnostics == {"NotImplemented", "Reference"}

C8_InternalErrorsLeaveTry ==
    \A i \in DOMAIN st.log :
        (st.log[i].k = "try" /\ st.log[i].thrown = "Error") =>
            ~st.log[i].caught /\ st.log[i].out = "Error"

\* C9: the fixed point of a tainted while, do-while or for statement stops
\* as soon as a pass yields a residual body, test (and update) equivalent
\* to the previous pass's, an absent or untainted test included.
C9_FixedPointStops ==
    \A i \in DOMAIN st.log :
        (st.log[i].k = "pass" /\ st.log[i].same) => st.log[i].stopped

RECURSIVE CallPairs(_)
RECURSIVE CallPairsIn(_, _)
\* the number of `(call, literal)` sequence expressions in an expression,
\* a declaration or an expression statement; function bodies are not entered
CallPairsIn(ns, i) ==
    IF i > Len(ns) THEN 0 ELSE CallPairs(ns[i]) + CallPairsIn(ns, i + 1)

CallPairs(n) ==
    CASE n.type \in {"BinaryExpression", "LogicalExpression", "AssignmentExpression"} ->
            CallPairs(n.left) + CallPairs(n.right)
      [] n.type \in {"UnaryExpression", "UpdateExpression"} -> CallPairs(n.argument)
      [] n.type = "ConditionalExpression" ->
            CallPairs(n.test) + CallPairs(n.consequent) + CallPairs(n.alternate)
      [] n.type = "SequenceExpression" ->
            IF Len(n.expressions) = 2 /\ n.expressions[1].type = "CallExpression"
            THEN 1 + CallPairsIn(n.expressions[1].arguments, 1) + CallPairs(n.expressions[2])
            ELSE CallPairsIn(n.expressions, 1)
      [] n.type = "CallExpression" -> CallPairsIn(n.arguments, 1)
      [] n.type = "ExpressionStatement" -> CallPairs(n.expression)
      [] n.type = "VariableDeclarator" -> CallPairs(n.init)
      [] n.type = "VariableDeclaration" -> CallPairsIn(n.declarations, 1)
      [] OTHER -> 0

\* the program is a list of declarations and expression statements
StraightLine(p) ==
    \A i \in DOMAIN p.body :
        p.body[i].type \in {"VariableDeclaration", "FunctionDeclaration", "ExpressionStatement"}

\* the calls made by the program's own statements that returned untainted
UntaintedCalls ==
    {i \in DOMAIN st.log :
        /\ st.log[i].k = "call"
        /\ ~st.log[i].tainted
        /\ st.log[i].ctx = globalCtx
        /\ st.log[i].depth = 1}

\* C10: every call that returns an untainted value is kept in the residual
\* exactly once, as `(call, literal)`, wherever the call occurs: the
\* residual of a finished straight-line program holds as many such pairs
\* as its statements made untainted calls.
C10_UntaintedCallsKeptOnce ==
    (status = "done" /\ StraightLine(prog)) =>
        CallPairsIn(st.ast, 1) = Cardinality(UntaintedCalls)

(***************************************************************************)
(* Reference execution.  A program of the catalogue, or its residual, is   *)
(* run as JavaScript runs it, with the payload arithmetic of the model     *)
(* and one runtime value (oracle) for the name the evaluator cannot        *)
(* resolve.  The catalogue's functions take no parameters and declare no   *)
(* locals, so every variable is a global; try statements are outside the   *)
(* subset run here.  A machine m holds the variables, the calls made so    *)
(* far, the loop iterations and calls left (fuel), why control left the    *)
(* current statement (ctl, with the label of a break) and the last value.  *)
(***************************************************************************)
MaxSteps == 8

Machine0(oracle) ==
    [vars |-> <<Entry("tainted", oracle)>>, calls |-> <<>>, fuel |-> MaxSteps,
     ctl |-> "none", label |-> "", val |-> VUndef]

Val(m, v) == [m EXCEPT !.val = v]
Stop(m, why) == [m EXCEPT !.ctl = why]
Bind(m, name, v) == [m EXCEPT !.vars = MapSet(@, name, v), !.val = v]

RECURSIVE Expr(_, _)
RECURSIVE ExprList(_, _, _)
RECURSIVE Exec(_, _)
RECURSIVE ExecList(_, _, _)
RECURSIVE Loop(_, _, _)

ExprList(es, i, m) ==
    IF i > Len(es) \/ m.ctl # "none" THEN m ELSE ExprList(es, i + 1, Expr(es[i], m))

ExecList(body, i, m) ==
    IF i > Len(body) \/ m.ctl # "none" THEN m ELSE ExecList(body, i + 1, Exec(body[i], m))

\* the value of an operator application, or the run leaves the subset
Applied(m, bv) == IF bv.ex # NoEx THEN Stop(m, "unsupported") ELSE Val(m, bv.v)

ExprCall(n, m) ==
    LET f == Expr(n.callee, m)
        a == ExprList(n.arguments, 1, f)
        fn == f.val.fn
        run == Exec(fn.body, [a EXCEPT !.fuel = @ - 1, !.calls = Append(@, n.callee.name)])
    IN  IF f.ctl # "none" THEN f
        ELSE IF n.callee.type # "Identifier" \/ f.val.t # "function" THEN Stop(f, "unsupported")
        ELSE IF Len(fn.params) > 0 THEN Stop(f, "unsupported")
        ELSE IF a.ctl # "none" THEN a
        ELSE IF a.fuel = 0 THEN Stop(a, "fuel")
        ELSE IF run.ctl = "return" THEN Stop(run, "none")
        ELSE IF run.ctl = "none" THEN Val(run, VUndef)
        ELSE run

ExprAssign(n, m) ==
    LET name == n.left.name
        old == IF MapHas(m.vars, name) THEN MapGet(m.vars, name) ELSE VUndef
        r == Expr(n.right, m)
        bv == resolveAssignmentExpression(n.operator, old, r.val)
    IN  IF n.left.type # "Identifier" THEN Stop(m, "unsupported")
        ELSE IF n.operator # "=" /\ ~MapHas(m.vars, name) THEN Stop(m, "error")
        ELSE IF r.ctl # "none" THEN r
        ELSE IF bv.ex # NoEx THEN Stop(r, "unsupported")
        ELSE Bind(r, name, bv.v)

ExprUpdate(n, m) ==
    LET name == n.argument.name
        old == MapGet(m.vars, name)
        op == IF n.operator = "++" THEN "+" ELSE "-"
        new == Arith(op, old, VNum(1))
    IN  IF n.argument.type # "Identifier" THEN Stop(m, "unsupported")
        ELSE IF ~MapHas(m.vars, name) THEN Stop(m, "error")
        ELSE Val(Bind(m, name, new), IF n.prefix THEN new ELSE ToNumber(old))

ExprUnary(n, m) ==
    LET a == Expr(n.argument, m)
        op == n.operator
    IN  IF a.ctl # "none" THEN a
        ELSE CASE op = "void" -> Val(a, VUndef)
               [] op = "!" -> Val(a, VBool(~Truthy(a.val)))
               [] op = "+" -> Val(a, ToNumber(a.val))
               [] op = "-" -> Val(a, Negate(a.val))
               [] op = "typeof" -> Val(a, VStr(TypeOf(a.val)))
               [] OTHER -> Stop(a, "unsupported")

Expr(n, m) ==
    IF m.ctl # "none" THEN m
    ELSE CASE n.type = "NumericLiteral" ->
                Val(m, IF "nan" \in DOMAIN n THEN VNaN ELSE VNum(n.value))
           [] n.type = "StringLiteral" -> Val(m, VStr(n.value))
           [] n.type = "BooleanLiteral" -> Val(m, VBool(n.value))
           [] n.type = "NullLiteral" -> Val(m, VNull)
           [] n.type = "Identifier" ->
                IF n.name = "undefined" THEN Val(m, VUndef)
                ELSE IF MapHas(m.vars, n.name) THEN Val(m, MapGet(m.vars, n.name))
                ELSE Stop(m, "error")
           [] n.type = "BinaryExpression" ->
                LET a == Expr(n.left, m)
                    b == Expr(n.right, a)
                IN  IF b.ctl # "none" THEN b
                    ELSE Applied(b, BinaryValue(n.operator, a.val, b.val))
           [] n.type = "LogicalExpression" ->
                LET a == Expr(n.left, m)
                IN  IF a.ctl # "none" THEN a
                    ELSE IF shouldShortCircuit(n.operator, a.val) THEN a
                    ELSE Expr(n.right, a)
           [] n.type = "UnaryExpression" -> ExprUnary(n, m)
           [] n.type = "UpdateExpression" -> ExprUpdate(n, m)
           [] n.type = "AssignmentExpression" -> ExprAssign(n, m)
           [] n.type = "SequenceExpression" -> ExprList(n.expressions, 1, m)
           [] n.type = "ConditionalExpression" ->
                LET a == Expr(n.test, m)
                IN  IF a.ctl # "none" THEN a
                    ELSE IF Truthy(a.val) THEN Expr(n.consequent, a)
                    ELSE Expr(n.alternate, a)
           [] n.type = "CallExpression" -> ExprCall(n, m)
           [] OTHER -> Stop(m, "unsupported")

RECURSIVE ExecDeclarators(_, _, _)
ExecDeclarators(ds, i, m) ==
    IF i > Len(ds) \/ m.ctl # "none" THEN m
    ELSE LET d == ds[i]
             r == Expr(d.init, m)
         IN  IF d.init = NoNode
             THEN ExecDeclarators(ds, i + 1,
                      IF MapHas(m.vars, d.id.name) THEN m ELSE Bind(m, d.id.name, VUndef))
             ELSE IF r.ctl # "none" THEN r
             ELSE ExecDeclarators(ds, i + 1, Bind(r, d.id.name, r.val))

LoopTypes == {"WhileStatement", "DoWhileStatement", "ForStatement"}

\* one iteration of a loop and the iterations after it; first is TRUE on
\* entry, where a do-while skips its test
Loop(n, first, m) ==
    LET t == IF n.test = NoNode \/ (first /\ n.type = "DoWhileStatement")
             THEN Val(m, VBool(TRUE))
             ELSE Expr(n.test, m)
        b == Exec(n.body, [t EXCEPT !.fuel = @ - 1])
        u == IF n.type = "ForStatement" /\ n.update # NoNode THEN Expr(n.update, b) ELSE b
    IN  IF m.ctl # "none" THEN m
        ELSE IF t.ctl # "none" THEN t
        ELSE IF ~Truthy(t.val) THEN t
        ELSE IF t.fuel = 0 THEN Stop(t, "fuel")
        ELSE IF b.ctl = "break" /\ b.label = "" THEN Stop(b, "none")
        ELSE IF b.ctl # "none" THEN b
        ELSE Loop(n, FALSE, u)

Exec(n, m) ==
    IF m.ctl # "none" THEN m
    ELSE CASE n.type = "ExpressionStatement" -> Expr(n.expression, m)
           [] n.type = "VariableDeclaration" -> ExecDeclarators(n.declarations, 1, m)
           [] n.type = "FunctionDeclaration" -> Bind(m, n.id.name, VFun(n))
           [] n.type = "IfStatement" ->
                LET t == Expr(n.test, m)
                IN  IF t.ctl # "none" THEN t
                    ELSE IF Truthy(t.val) THEN Exec(n.consequent, t)
                    ELSE IF n.alternate = NoNode THEN t
                    ELSE Exec(n.alternate, t)
           [] n.type = "BlockStatement" -> ExecList(n.body, 1, m)
           [] n.type = "LabeledStatement" ->
                LET r == Exec(n.body, m)
                IN  IF r.ctl = "break" /\ r.label = n.label.name
                    THEN [r EXCEPT !.ctl = "none", !.label = ""]
                    ELSE r
           [] n.type = "BreakStatement" ->
                [m EXCEPT !.ctl = "break",
                          !.label = IF n.label = NoNode THEN "" ELSE n.label.name]
           [] n.type = "ReturnStatement" ->
                IF n.argument = NoNode THEN Stop(Val(m, VUndef), "return")
                ELSE LET r == Expr(n.argument, m)
                     IN  IF r.ctl # "none" THEN r ELSE Stop(r, "return")
           [] n.type \in {"WhileStatement", "DoWhileStatement"} -> Loop(n, TRUE, m)
           [] n.type = "ForStatement" ->
                LET i == IF n.init = NoNode THEN m
                         ELSE IF n.init.type = "VariableDeclaration" THEN Exec(n.init, m)
                         ELSE Expr(n.init, m)
                IN  Loop(n, TRUE, i)
           [] n.type = "EmptyStatement" -> m
           [] OTHER -> Stop(m, "unsupported")

Oracles == {VBool(TRUE), VBool(FALSE)}

Run(body, oracle) == ExecList(body, 1, Machine0(oracle))

\* what a finished run leaves to see: the values of the variables that do
\* not hold functions, and the calls in the order they were made
Observed(m) ==
    [vars |-> {<<m.vars[i].name, m.vars[i].c>> :
                  i \in {j \in DOMAIN m.vars : m.vars[j].c.t # "function"}},
     calls |-> m.calls]

\* C1: for every program of the subset and every runtime value of the
\* unresolved name, running the residual ends with the same values in all
\* program variables, and makes the same calls in the same order, as
\* running the original program.
C1_ResidualIsEquivalent ==
    status = "done" =>
        \A o \in Oracles :
            LET original == Run(prog.body, o)
                residual == Run(st.ast, o)
            IN  original.ctl = "none" =>
                    /\ residual.ctl = "none"
                    /\ Observed(residual) = Observed(original)

\* the function's body is a list of expression statements, declarations
\* and `return;`: every path through it ends at a `return;` or at the end
BareBody(fn) ==
    \A i \in DOMAIN fn.body.body :
        \/ fn.body.body[i].type \in {"ExpressionStatement", "VariableDeclaration",
                                     "FunctionDeclaration"}
        \/ fn.body.body[i].type = "ReturnStatement" /\ fn.body.body[i].argument = NoNode

\* C11: a call whose executed path ends at `return;` or at the end of the
\* body yields the untainted default return value null, whatever other
\* call ran or function was defined while the body ran.
C11_BareReturnYieldsNull ==
    \A i \in DOMAIN st.log :
        st.log[i].k = "callend" /\ BareBody(st.log[i].fn)
            => st.log[i].value.v = VNull /\ ~st.log[i].value.t

\* the carrier a read of the global `name` yields
Global(name) == Cell(st, MapGet(st.envs[EnvOf(st, globalCtx)].record, name))

\* C12: after `x = e` with e untainted, outside any taint_parent_writes
\* gate, a read of x yields an untainted carrier with exactly e's value,
\* undefined, null, 0, false and the empty string included.
C12_AssignmentStoresValue ==
    \A a \in AssignedValues :
        prog = AssignProgram(a.e) /\ pc > 2
            => Global("x").v = a.v /\ ~Global("x").t

\* the carrier a read of the expression e yields in the current state
ReadOf(e) ==
    LET r == Eval(e, globalCtx, st)
    IN  IF r.ex = NoEx /\ r.c > 0 THEN Cell(r.s, r.c) ELSE TLValue(VErr(r.ex.k), FALSE)

\* C13: after an assignment to element k of an array of an enclosing scope
\* inside a branch of an if statement with a tainted test, a read of
\* element k yields a tainted residual member expression and the other
\* elements still read as their concrete untainted values.
C13_BranchElementWriteTaintsElement ==
    \A w \in ElementWrites, labeled \in BOOLEAN :
        prog = BranchWriteProgram(w, labeled) /\ pc > 2
            => /\ ReadOf(w.left).t
               /\ ReadOf(w.left).n.type = "MemberExpression"
               /\ ReadOf(At(A, Num(1))) = TLValue(VNum(20), FALSE)

\* C14: after an assignment to a member expression with an untainted root
\* and a tainted key at any depth of the path, the deepest sub-object
\* reached through the untainted keys before the first tainted key is
\* tainted, and a later read through it returns no concrete value.
C14_TaintedKeyTaintsSubObject ==
    \A k \in KeyedWrites :
        prog = KeyedWriteProgram(k.w) /\ pc > 2
            => ReadOf(k.sub).t /\ ReadOf(At(At(A, Num(0)), Num(0))).t

\* C15: `o[k] = v` with o, k and v untainted stores v at key k: a later
\* read of o[k] yields v untainted, whether or not o had an element at k.
C15_ElementStoreReadsBack ==
    \A init \in StoreInits, k \in StoreKeys, a \in AssignedValues :
        prog = StoreProgram(init, k, a.e) /\ pc > 2
            => ReadOf(At(A, Num(k))).v = a.v /\ ~ReadOf(At(A, Num(k))).t

\* carriers handed to Environment.assign
AssignArguments ==
    { TLValue(VNum(1), FALSE), TLValue(VUndef, FALSE), TLValue(VNull, TRUE),
      TLNode(Id("q"), TRUE), TLNode(Id("q"), FALSE), TLBoth(Id("q"), VNum(2), FALSE) }

\* the names bound in an environment
NamesOf(e) == {st.envs[e].record[i].name : i \in DOMAIN st.envs[e].record}

\* name is not bound in environment e itself and _resolve_parent finds it
\* in an ancestor of e
BoundAbove(e, name) ==
    /\ name \notin NamesOf(e)
    /\ _resolve_parent(st, e, name).ex = NoEx
    /\ _resolve_parent(st, e, name).env # e

\* the carrier bound to name in the environment _resolve_parent finds from
\* e, in state s
Bound(s, e, name) ==
    Cell(s, MapGet(s.envs[_resolve_parent(st, e, name).env].record, name))

\* C16: assign(name, c) on an environment with taint_parent_writes, name
\* bound in an ancestor, leaves name bound there to a tainted carrier whose
\* node is the identifier and which holds no concrete value, whatever c is.
C16_GatedWriteStoresReference ==
    \A e \in DOMAIN st.envs, c \in AssignArguments :
        \A name \in UNION {NamesOf(p) : p \in DOMAIN st.envs} :
            st.envs[e].taint_parent_writes /\ BoundAbove(e, name)
                => /\ assign(st, e, name, c).ex = NoEx
                   /\ Bound(assign(st, e, name, c).s, e, name).t
                   /\ Bound(assign(st, e, name, c).s, e, name).n = Id(name)
                   /\ ~Bound(assign(st, e, name, c).s, e, name).hv

\* a write to the global x ran in the branch of an if statement with a
\* tainted test, and left x a tainted reference
C16_Witness ==
    /\ \E e \in DOMAIN st.envs : st.envs[e].taint_parent_writes /\ BoundAbove(e, "x")
    /\ \E i \in DOMAIN st.log : st.log[i] = WriteEvent("x", EnvOf(st, globalCtx))
    /\ Global("x") = TaintedRef("x")

\* name is bound nowhere on the scope chain of environment e
RECURSIVE Unbound(_, _)
Unbound(e, name) ==
    e = 0 \/ (name \notin NamesOf(e) /\ Unbound(st.envs[e].parent, name))

\* C17: resolve(name) on an environment with ignore_reference_exception
\* never raises ReferenceUnresolved: a name bound nowhere on the chain
\* becomes bound in that environment's own record as a tainted reference,
\* which is returned, whether or not the environment has a parent.
C17_IgnoredReferenceDeclaresLocally ==
    \A e \in DOMAIN st.envs :
        st.envs[e].ignore_reference_exception /\ Unbound(e, "zz")
            => /\ resolve(st, e, "zz").ex = NoEx
               /\ MapHas(resolve(st, e, "zz").s.envs[e].record, "zz")
               /\ resolve(st, e, "zz").c = MapGet(resolve(st, e, "zz").s.envs[e].record, "zz")
               /\ Cell(resolve(st, e, "zz").s, resolve(st, e, "zz").c) = TaintedRef("zz")

\* C18: env.is_tainted_environment(limit) is true exactly when some
\* environment on the parent chain from env up to, not including, limit
\* (the root when there is no limit) has taint_parent_writes.
C18_TaintedUpToLimit ==
    \A e \in DOMAIN st.envs, limit \in {0} \cup DOMAIN st.envs :
        is_tainted_environment(st, e, limit) = EnvChainTainted(st, e, limit)

\* the context types of loops and switches
LoopOrSwitch == BREAKABLE_ENVIRONMENTS \ {"LabeledStatement"}

\* the contexts of a callstack a break with this label may target
Targets(stack, label) ==
    {i \in DOMAIN stack : IF label # "" THEN st.ctxs[stack[i]].name = label
                          ELSE st.ctxs[stack[i]].type \in LoopOrSwitch}

\* C19: a break without a label targets the innermost enclosing loop or
\* switch context, never a labeled statement's; a break with a label
\* targets the context carrying the label; with no such context the break
\* raises ReferenceUnresolved and targets nothing.
C19_BreakTargetsInnermost ==
    \A i \in DOMAIN st.log :
        st.log[i].k = "target"
            => \E j \in Targets(st.log[i].before, st.log[i].label) :
                   /\ st.log[i].before[j] = st.log[i].target
                   /\ \A h \in Targets(st.log[i].before, st.log[i].label) : h <= j

\* the FaultEvent of the evaluation of the TryStatement that log entry i ends
FaultOf(i) ==
    LET js == {j \in 1..(i - 1) : /\ st.log[j].k = "fault"
                                  /\ st.log[j].node = st.log[i].node}
    IN  IF js = {} THEN 0 ELSE CHOOSE j \in js : \A h \in js : h <= j

\* C20: when a statement of a try body raises an exception the try
\* statement handles, the try block of the emitted statement is the body's
\* residuals before the fault followed by the original faulting statement
\* of that body, whatever the catch block and the finalizer evaluate.
C20_TryBlockIsFaultedBody ==
    \A i \in DOMAIN st.log :
        st.log[i].k = "try" /\ st.log[i].thrown # NoEx.k /\ st.log[i].out = NoEx.k
            => /\ FaultOf(i) > 0
               /\ st.log[i].block = st.log[FaultOf(i)].error_state
               /\ Len(st.log[i].block.body) > 0
               /\ \E h \in DOMAIN st.log[i].node.block.body :
                      st.log[i].block.body[Len(st.log[i].block.body)]
                          = st.log[i].node.block.body[h]

\* what name is bound to in the global environment of s: its carrier, or
\* the mark "unbound"
Binding(s, name) ==
    IF MapHas(s.envs[EnvOf(s, globalCtx)].record, name)
    THEN Cell(s, MapGet(s.envs[EnvOf(s, globalCtx)].record, name))
    ELSE [unbound |-> TRUE]

\* the identifiers a block assigns in its own statements
Written(block) ==
    IF block = NoNode THEN {}
    ELSE {block.body[i].expression.left.name :
            i \in {j \in DOMAIN block.body :
                      /\ block.body[j].type = "ExpressionStatement"
                      /\ block.body[j].expression.type = "AssignmentExpression"
                      /\ block.body[j].expression.left.type = "Identifier"}}

\* the step evaluates the try statement at pc, its body raises nothing and
\* the statement ends normally
QuietTry ==
    /\ status = "running" /\ pc <= Len(prog.body)
    /\ prog.body[pc].type = "TryStatement"
    /\ prog.body[pc].handler # NoNode
    /\ status' \in {"running", "done"}
    /\ st'.log[Len(st'.log)].k = "try"
    /\ st'.log[Len(st'.log)].node = prog.body[pc]
    /\ st'.log[Len(st'.log)].thrown = NoEx.k

\* C21: when the try body raises nothing, the catch body is evaluated only
\* as possibly-skipped code, and after the try statement the parameter
\* name is bound exactly as before (unbound if it was unbound) and every
\* enclosing variable the catch body writes (and the finalizer does not
\* write afterwards) is tainted.
C21_CatchParameterRestored ==
    [][QuietTry =>
          LET handler == prog.body[pc].handler
              param == IF handler.param = NoNode THEN "" ELSE handler.param.name
          IN  /\ ~st'.log[Len(st'.log)].caught
              /\ param # "" => Binding(st', param) = Binding(st, param)
              /\ \A name \in (Written(handler.body) \ Written(prog.body[pc].finalizer))
                                 \ {param} :
                     Binding(st', name).t]_vars

\* the untainted left value v decides the result of `a op b`
Decides(op, v) ==
    \/ op = "&&" /\ ~Truthy(v)
    \/ op = "||" /\ Truthy(v)
    \/ op = "??" /\ v.t \notin {"null", "undefined"}

\* the Environments, the callstack, the residual output and the flags of a
\* state
Observable(s) ==
    [envs |-> s.envs, ctxs |-> s.ctxs, arrs |-> s.arrs, callstack |-> s.callstack,
     ast |-> s.ast, return_stmt_flag |-> s.return_stmt_flag,
     returnValue |-> s.returnValue, error_state |-> s.error_state]

\* the carriers of s are those of s0, but for new ones
Extends(s, s0) ==
    /\ Len(s.heap) >= Len(s0.heap)
    /\ \A i \in DOMAIN s0.heap : s.heap[i] = s0.heap[i]

\* `a op b` evaluated in the current state skips b when a decides it
ShortCircuits(op, a, b) ==
    LET ra == Eval(a, globalCtx, st)
        r == Eval(Logical(op, a, b), globalCtx, st)
        Skipped(left) ==
            (~left.t /\ Decides(op, left.v))
                => /\ r.ex = NoEx /\ r.c > 0
                   /\ Cell(r.s, r.c) = TLValue(left.v, FALSE)
                   /\ Observable(r.s) = Observable(ra.s)
                   /\ Extends(r.s, ra.s)
    IN  (ra.ex = NoEx /\ ra.c > 0) => Skipped(Cell(ra.s, ra.c))

\* C22: for `a && b`, `a || b` and `a ?? b` with a untainted and deciding
\* the result, b is never evaluated: the result is a's untainted value and
\* the Environment, the callstack and the residual output are as they were
\* after a, even when b is tainted or has side effects.
C22_ShortCircuitSkipsRight ==
    \A op \in LogicalOps, a \in Lefts, b \in Rights : ShortCircuits(op, a, b)

\* C22 witness: a statement `a op (x = 1)` with a deciding its result has
\* been evaluated and x still holds 0
C22_Witness ==
    /\ prog \in ShortCircuitPrograms /\ pc > 2 /\ status \in {"running", "done"}
    /\ prog.body[2].expression.right = Assign("=", X, Num(1))
    /\ Global("x") = TLValue(VNum(0), FALSE)

\* member reads of a, by keys inside and outside its elements
Reads ==
    MissingReads
    \cup {At(A, Num(k)) : k \in 0..3} \cup {OptMember(A, Num(k), TRUE) : k \in 0..3}
    \cup {At(At(A, Num(j)), Num(k)) : j \in 0..1, k \in 0..2}
    \cup {At(Num(7), Num(0)), OptMember(Unary("void", Num(0)), Num(0), TRUE)}

\* the untainted value v has no element at the untainted key
Missing(s, v, key) ==
    \/ v.t \in {"number", "boolean"}
    \/ v.t = "object" /\ key.t = "number" /\ key.n \notin 0..(Len(s.arrs[v.arr]) - 1)

\* the outcome r of a read is the untainted undefined, in a state that is
\* s0 but for the new carrier
YieldsUndefined(r, s0) ==
    /\ r.ex = NoEx /\ r.c > 0
    /\ Cell(r.s, r.c) = TLValue(VUndef, FALSE)
    /\ Observable(r.s) = Observable(s0)
    /\ Extends(r.s, s0)

\* the member read m, evaluated in the current state, of a missing element
\* or (optional form) of a null or undefined object
ReadsMissing(m) ==
    LET o == Eval(m.object, globalCtx, st)
        r == Eval(m, globalCtx, st)
        Keyed(obj, k) ==
            (k.ex = NoEx /\ k.c > 0 /\ ~Cell(k.s, k.c).t
             /\ Missing(k.s, obj.v, Cell(k.s, k.c).v))
                => YieldsUndefined(r, k.s)
        Found(obj) ==
            IF obj.t THEN TRUE
            ELSE IF obj.v.t \in {"null", "undefined"}
            THEN m.type = "OptionalMemberExpression" => YieldsUndefined(r, o.s)
            ELSE IF m.computed THEN Keyed(obj, Eval(m.property, globalCtx, o.s))
            ELSE TRUE
    IN  (o.ex = NoEx /\ o.c > 0) => Found(Cell(o.s, o.c))

\* C23: a member read with untainted object and untainted key of a missing
\* element, at any nesting depth, or (optional form) of an untainted null
\* or undefined object, yields an untainted carrier with value undefined
\* and leaves the object unchanged.
C23_MissingElementReadsUndefined == \A m \in Reads : ReadsMissing(m)

\* C23 witness: `var y = m ?? 4` with m the read of a missing element has
\* been evaluated and y holds the untainted 4
C23_Witness ==
    /\ prog \in MissingReadPrograms /\ pc = 3 /\ status = "running"
    /\ Global("y") = TLValue(VNum(4), FALSE)
    /\ ReadOf(At(At(A, Num(0)), Num(0))) = TLValue(VNum(1), FALSE)

\* C24: each unsupported construct (a let or const declaration, a
\* generator or async function, a function with a rest or pattern
\* parameter in any position) raises NotImplemented when evaluated and is
\* never evaluated as if it were supported: it binds nothing and emits
\* nothing.
C24_UnsupportedRaiseNotImplemented ==
    (prog \in UnsupportedPrograms /\ pc > 1)
        => /\ status = "NotImplemented"
           /\ st.ast = <<>>
           /\ NamesOf(EnvOf(st, globalCtx)) = {}

\* operands of void: literals, a variable, a tainted name, a tainted
\* expression
VoidOperands == {Num(0), Str(""), NullLit, X, T, Bin("+", T, Num(1))}

\* C25: evaluating `void e` returns the reserved identifier `undefined` as
\* its residual for every operand e, a tainted operand included.
C25_VoidYieldsUndefined ==
    \A e \in VoidOperands :
        LET r == Eval(Unary("void", e), globalCtx, st)
        IN  (Eval(e, globalCtx, st).ex = NoEx)
                => r.ex = NoEx /\ r.c > 0 /\ Cell(r.s, r.c).n = Id("undefined")

\* one more pass of the tainted fixed point of the while or do-while
\* statement node, from state s: its residual body and test
ExtraPass(node, s) ==
    LET env == NewEnv(s)
        exec_ctx == NewCtx(s)
        nb == Eval(node.body, exec_ctx,
                   [Push(AllocCtx(AllocEnv(s, Environment(<<>>, EnvOf(s, globalCtx),
                                                          TRUE, FALSE, TRUE)),
                                  ExecutionContext(env, node.type, "")),
                         exec_ctx) EXCEPT !.return_stmt_flag = TRUE])
        nt == Eval(node.test, globalCtx,
                   [nb.s EXCEPT !.return_stmt_flag = s.return_stmt_flag])
        Lifted(tp) == [ex |-> tp.ex, body |-> nb.n, test |-> tp.n]
    IN  IF nb.ex # NoEx THEN [ex |-> nb.ex, body |-> NoNode, test |-> NoNode]
        ELSE IF nt.ex # NoEx \/ nt.c <= 0
        THEN [ex |-> IF nt.ex # NoEx THEN nt.ex ELSE TypeError,
              body |-> nb.n, test |-> NoNode]
        ELSE Lifted(get_repr(nt.s, Cell(nt.s, nt.c)))

\* the statement before pc is a while or do-while statement that has just
\* been emitted as a residual loop
LoopEmitted ==
    /\ pc > 1 /\ status \in {"running", "done"}
    /\ prog.body[pc - 1].type \in {"WhileStatement", "DoWhileStatement"}
    /\ Len(st.ast) > 0
    /\ st.ast[Len(st.ast)].type = prog.body[pc - 1].type

\* C26: tainted-loop simplification is idempotent: after the residual loop
\* has been emitted, one more pass from the resulting Environment yields a
\* residual body and test tree-equivalent to the emitted ones.
C26_LoopSimplificationIdempotent ==
    LoopEmitted
        => LET again == ExtraPass(prog.body[pc - 1], st)
               emitted == st.ast[Len(st.ast)]
           IN  /\ again.ex = NoEx
               /\ isNodesEquivalent(again.body, emitted.body)
               /\ isNodesEquivalent(again.test, emitted.test)

\* what name is bound to in the record of environment p, in state s
EntryOf(s, p, name) == Cell(s, MapGet(s.envs[p].record, name))

\* setTaint(name, flag) on e, name bound in environment p of e's chain:
\* only the taint bit of that entry changes
OnlyTaintChanges(e, p, name, flag) ==
    LET r == setTaint(st, e, name, flag)
    IN  /\ r.ex = NoEx
        /\ EntryOf(r.s, p, name) = [EntryOf(st, p, name) EXCEPT !.t = flag]
        /\ \A q \in DOMAIN st.envs :
               /\ NamesOf(q) = {r.s.envs[q].record[i].name : i \in DOMAIN r.s.envs[q].record}
               /\ \A other \in NamesOf(q) :
                      (q # p \/ other # name)
                          => EntryOf(r.s, q, other) = EntryOf(st, q, other)

\* C27: setTaint(name, flag) changes only the taint bit of the entry name
\* resolves to: its value and node are the ones it had before, and no
\* other entry changes.
C27_SetTaintKeepsValueAndNode ==
    \A e \in DOMAIN st.envs, flag \in BOOLEAN :
        \A name \in UNION {NamesOf(p) : p \in DOMAIN st.envs} :
            LET rp == _resolve_parent(st, e, name)
            IN  (rp.ex = NoEx /\ name \in NamesOf(rp.env))
                    => OnlyTaintChanges(e, rp.env, name, flag)

\* the log entries at which a pass of a tainted loop's fixed point starts
Starts == {i \in DOMAIN st.log : st.log[i].k = "start"}

\* C28: at the start of every pass of tainted-loop simplification the
\* loop's own context is the top of the callstack: a return or break of an
\* earlier pass has popped neither it nor a context below it.
C28_PassStartsOnLoopContext ==
    \A i \in Starts :
        /\ st.log[i].callstack[Len(st.log[i].callstack)] = st.log[i].ctx
        /\ \A j \in Starts :
               st.log[j].ctx = st.log[i].ctx => st.log[j].callstack = st.log[i].callstack

\* C29: when an exception raised inside a nested construct of a try body
\* is handled by the try statement, the callstack the catch block starts
\* on is the callstack at entry to the try statement, so every statement
\* of the catch block is evaluated.
C29_CatchSeesEntryCallstack ==
    /\ \A i \in DOMAIN st.log :
           st.log[i].k = "fault" => st.log[i].callstack = st.log[i].entry
    /\ (prog \in NestedFaultPrograms /\ pc > 3 /\ status \in {"running", "done"})
           => Global("x").v = VNum(1) /\ Global("y").v = VNum(2)

\* C30: an element of an array of an enclosing scope, written inside a
\* possibly-skipped region through a name local to that region (a local
\* variable aliasing the array, or a parameter of a function called
\* there), is tainted when later read through the enclosing scope's name
\* and never holds the concrete value written in the region.
C30_AliasedElementWriteTaints ==
    (prog \in AliasPrograms /\ pc > 3 /\ status \in {"running", "done"})
        => /\ ReadOf(At(A, Num(0))).t
           /\ ReadOf(At(A, Num(0))).v # VNum(5)

\* C31: after a loop has been emitted through tainted simplification,
\* every enclosing variable its test writes is tainted: the writes of the
\* test during the passes are not left as concrete values.
C31_TestWritesTainted ==
    (prog \in TestWritePrograms /\ pc > 2 /\ status \in {"running", "done"})
        => Global("x").t

\* the positions of the log at which eval was entered on node
EvalsOf(node) == {i \in DOMAIN st.log : st.log[i].k = "eval" /\ st.log[i].node = node}

\* C32: the init expression of a for statement is evaluated exactly once
\* per execution of the statement, before the first test, also when the
\* loop ends up in tainted simplification.
C32_ForInitEvaluatedOnce ==
    (prog \in InitPrograms /\ pc > 2)
        => /\ Cardinality(EvalsOf(prog.body[2].init)) = 1
           /\ \A i \in EvalsOf(prog.body[2].init), j \in EvalsOf(prog.body[2].test) : i < j

\* C33: the arguments of a call expression are evaluated exactly once
\* each, left to right, after the callee, whether the callee is tainted or
\* not, and the writes they make take effect in the Environment.
C33_ArgumentsEvaluatedOnce ==
    (prog \in ArgumentPrograms /\ pc > 3)
        => LET call == prog.body[3].expression
           IN  /\ \A k \in DOMAIN call.arguments :
                      Cardinality(EvalsOf(call.arguments[k])) = 1
               /\ \A c \in EvalsOf(call.callee), i \in EvalsOf(call.arguments[1]),
                     j \in EvalsOf(call.arguments[2]) : c < i /\ i < j
               /\ Global("x") = TLValue(VNum(6), FALSE)

\* C34: every statement of the finalizer of a try statement is evaluated
\* exactly once, after the try body, whether the body completed, raised,
\* returned or broke: each of the two variables the finalizer adds to has
\* been added to once.
C34_FinalizerEvaluatedOnce ==
    (prog \in FinallyPrograms /\ pc = Len(prog.body))
        => /\ status = "running"
           /\ Global("x") = TLValue(VNum(1), FALSE)
           /\ Global("y") = TLValue(VNum(2), FALSE)
           /\ \A k \in DOMAIN Finalizer.body :
                  \A i \in EvalsOf(Finalizer.body[k]) :
                      \E j \in 1..(i - 1) :
                          st.log[j].k = "eval" /\ st.log[j].node.type = "TryStatement"

\* C35: under a tainted test, the test of an else-if is evaluated exactly
\* once and inside the tainted envelope: a variable of an enclosing scope
\* it writes is left tainted, not concretely updated.
C35_ElseIfTestInEnvelope ==
    (prog \in ElseIfPrograms /\ pc > 2)
        => /\ status \in {"running", "done"}
           /\ Cardinality(EvalsOf(prog.body[2].alternate.test)) = 1
           /\ Global("x").t

\* C36: an assignment to a member expression evaluates every computed key
\* of its target exactly once and its right-hand side exactly once: the
\* key i++ and the right-hand side j++ each change the Environment once.
C36_MemberKeysEvaluatedOnce ==
    (prog \in KeyPrograms /\ pc > 2)
        => /\ Cardinality(EvalsOf(Key)) = 1
           /\ Cardinality(EvalsOf(Rhs)) = 1
           /\ status \in {"running", "done"}
               => /\ Global("i") = TLValue(VNum(1), FALSE)
                  /\ Global("j") = TLValue(VNum(1), FALSE)

\* the call of a residual carrier, which is the call itself when the
\* result is tainted and the first of a sequence when it is a value
ResidualCall(tl) ==
    IF tl.n.type = "SequenceExpression" THEN tl.n.expressions[1] ELSE tl.n

\* evaluating `call` from st leaves every argument carrier as argument
\* evaluation produced it, lists the arguments' own residual forms, and
\* leaves the taint of x as it was
LeavesCarriers(call) ==
    LET c == Eval(call.callee, globalCtx, st)
        a == EvalArguments(call, 1, <<>>, globalCtx, c.s)
        r == Eval(call, globalCtx, st)
    IN  r.ex = NoEx
            => /\ \A k \in DOMAIN a.args :
                      /\ Cell(r.s, a.args[k]) = Cell(a.s, a.args[k])
                      /\ ResidualCall(Cell(r.s, r.c)).arguments[k]
                             = get_repr(a.s, Cell(a.s, a.args[k])).n
               /\ Binding(r.s, "x").t = Binding(a.s, "x").t

\* C37: carriers are not mutated after they are produced: a call leaves
\* its argument carriers as argument evaluation produced them, its
\* residual lists the arguments' own residual forms, and a variable the
\* callee returns keeps its stored taint.
C37_CallLeavesCarriers ==
    (prog \in CarrierPrograms /\ pc = 3) => LeavesCarriers(prog.body[3].expression)

\* the names bound in environment e of state s
Names(s, e) == {s.envs[e].record[i].name : i \in DOMAIN s.envs[e].record}

\* from s0 to s1 the callstack is the same and every variable of every
\* environment of s0 is the same, the elements of its arrays included,
\* except that `name` may have been bound in the global environment
Frame(s0, s1, name) ==
    /\ s1.callstack = s0.callstack
    /\ \A e \in DOMAIN s0.envs :
           /\ Names(s1, e) \subseteq
                  Names(s0, e) \cup (IF e = EnvOf(s0, globalCtx) THEN {name} ELSE {})
           /\ \A n \in Names(s0, e) :
                  (e # EnvOf(s0, globalCtx) \/ n # name)
                      => n \in Names(s1, e) /\ EntryOf(s1, e, n) = EntryOf(s0, e, n)
    /\ \A a \in DOMAIN s0.arrs :
           /\ s1.arrs[a] = s0.arrs[a]
           /\ \A k \in DOMAIN s0.arrs[a] :
                  s0.arrs[a][k] > 0 => Cell(s1, s0.arrs[a][k]) = Cell(s0, s0.arrs[a][k])

\* the function a statement of FramePrograms evaluates
FunctionOf(stmt) == IF stmt.type = "FunctionDeclaration" THEN stmt ELSE stmt.expression

\* C38: evaluating a function declaration or a function expression, as
\* opposed to calling it, changes no variable of an existing environment
\* except binding the declared name in the enclosing one, and leaves the
\* callstack as it was.
C38_FunctionEvaluationFrame ==
    (prog \in FramePrograms /\ pc = 2)
        => Frame(st, Eval(FunctionOf(prog.body[2]), globalCtx, st).s, "f")

\* C39: every call of eval leaves return_stmt_flag with the value it had
\* when the call began, whether it returns or raises: no evaluation of a
\* top-level statement changes the flag.
C39_ReturnStmtFlagRestored ==
    [][st'.return_stmt_flag = st.return_stmt_flag]_vars

=============================================================================
